---- MODULE Spec2Model ----
(***************************************************************************)
(* Request / job / action correlation and structured logging:              *)
(*   app/core/request_context.py        the two ContextVars                *)
(*   app/services/logging/logging_service.py   LoggingService (the sink)   *)
(*   app/core/decorators.py             log_action                         *)
(*   app/middleware/logging_middleware.py, request_logging.py              *)
(*                                      RequestLoggingMiddleware.dispatch  *)
(*   app/api/v1/endpoints/migration.py  submit_job, get_job_status,        *)
(*                                      process_job                        *)
(***************************************************************************)
EXTENDS Integers, Sequences, FiniteSets, TLC

\* ------------------------------------------------------------------ bounds
\* Requests handled in one behaviour (each runs as its own task).
MaxReq == 3
\* Requests being handled at the same time.
MaxInFlight == 2
\* Jobs submitted in one behaviour.
MaxJobs == 1
\* Length of the positional argument list of a decorated call.
MaxArgs == 1
\* Calls made on the sink in one behaviour of the sink specification.
MaxSinkCalls == 3

\* ------------------------------------------------------------------ values
None == "None"

Flows == 1 .. MaxReq
Jobs == 1 .. MaxJobs
\* A background job runs with its own copy of the context.
BgTask(j) == MaxReq + j
Tasks == 1 .. (MaxReq + MaxJobs)

\* str(uuid.uuid4()) as minted while handling request f: a fresh identifier,
\* distinct from every other one and from what clients send.
Uuid4(f) == "g" \o ToString(f)
JobUuid(j) == "job" \o ToString(j)

\* Values of the X-Request-ID header a client sends (None: no header).
ClientHeaders == {None, "c1", "C1", "not-a-uuid"}

\* uuid.UUID(text) accepts upper case, braces, urn: prefixes and undashed
\* text; str() of the result is the lower-case dashed form.
UuidParses(text) == text \in {"c1", "C1"}
UuidStr(text) == IF text \in {"c1", "C1"} THEN "c1" ELSE text

JobStatusEnum == {"queued", "running", "succeeded", "failed", "cancelled"}
TerminalStatuses == {"succeeded", "failed", "cancelled"}
\* Columns and attributes of the JobLog model.
JobLogAttrs == {"id", "job_id", "request_log_id", "request_log", "status",
                "created_at", "start_time", "end_time", "input_payload",
                "result_payload", "error_message", "error_traceback"}

Truthy(v) == v # None /\ v # ""

\* --------------------------------------------------------- values and text
\* Python values handed to the logging code, by type:
\*   null, bool (b), int (n), str (s: its characters), list (items),
\*   dict (pairs: its <<key, value>> pairs in insertion order, keys are str),
\*   unprintable (an object whose __str__ raises).
\* Text is a sequence of one-character strings.
JNull == [t |-> "null"]
JBool(b) == [t |-> "bool", b |-> b]
JInt(n) == [t |-> "int", n |-> n]
JStr(chars) == [t |-> "str", s |-> chars]
JList(items) == [t |-> "list", items |-> items]
JDict(pairs) == [t |-> "dict", pairs |-> pairs]
Unprintable == [t |-> "unprintable"]
IsStructured(data) == data.t \in {"dict", "list"}

DigitChars == <<"0", "1", "2", "3", "4", "5", "6", "7", "8", "9">>
DigitValue(c) == (CHOOSE d \in 1 .. 10 : DigitChars[d] = c) - 1
IsDigit(c) == \E d \in 1 .. 10 : DigitChars[d] = c

RECURSIVE IntText(_)
\* str(n) of a non-negative int
IntText(n) == IF n < 10 THEN <<DigitChars[n + 1]>> ELSE IntText(n \div 10) \o <<DigitChars[(n % 10) + 1]>>

RECURSIVE JsonStringBody(_)
\* json.dumps of the characters of a str: quote and backslash are escaped.
JsonStringBody(chars) ==
    IF chars = <<>> THEN <<>>
    ELSE (IF Head(chars) \in {"\"", "\\"} THEN <<"\\", Head(chars)>> ELSE <<Head(chars)>>)
         \o JsonStringBody(Tail(chars))

RECURSIVE json_dumps(_)
RECURSIVE JsonItems(_)
RECURSIVE JsonMembers(_)
\* json.dumps(data, default=str) with the default separators ", " and ": ".
json_dumps(data) ==
    CASE data.t = "null" -> <<"n", "u", "l", "l">>
      [] data.t = "bool" -> IF data.b THEN <<"t", "r", "u", "e">> ELSE <<"f", "a", "l", "s", "e">>
      [] data.t = "int" -> IntText(data.n)
      [] data.t = "str" -> <<"\"">> \o JsonStringBody(data.s) \o <<"\"">>
      [] data.t = "list" -> <<"[">> \o JsonItems(data.items) \o <<"]">>
      [] data.t = "dict" -> <<"{">> \o JsonMembers(data.pairs) \o <<"}">>
JsonItems(items) ==
    IF items = <<>> THEN <<>>
    ELSE json_dumps(Head(items))
         \o (IF Len(items) > 1 THEN <<",", " ">> ELSE <<>>) \o JsonItems(Tail(items))
JsonMembers(pairs) ==
    IF pairs = <<>> THEN <<>>
    ELSE <<"\"">> \o JsonStringBody(Head(pairs)[1]) \o <<"\"", ":", " ">>
         \o json_dumps(Head(pairs)[2])
         \o (IF Len(pairs) > 1 THEN <<",", " ">> ELSE <<>>) \o JsonMembers(Tail(pairs))

RECURSIVE ReprStringBody(_)
\* repr of the characters of a str without single quotes: the backslash is escaped.
ReprStringBody(chars) ==
    IF chars = <<>> THEN <<>>
    ELSE (IF Head(chars) = "\\" THEN <<"\\", "\\">> ELSE <<Head(chars)>>)
         \o ReprStringBody(Tail(chars))

RECURSIVE py_repr(_)
RECURSIVE ReprItems(_)
RECURSIVE ReprMembers(_)
\* repr(data): what str() gives for the items of a container.
py_repr(data) ==
    CASE data.t = "null" -> <<"N", "o", "n", "e">>
      [] data.t = "bool" -> IF data.b THEN <<"T", "r", "u", "e">> ELSE <<"F", "a", "l", "s", "e">>
      [] data.t = "int" -> IntText(data.n)
      [] data.t = "str" -> <<"'">> \o ReprStringBody(data.s) \o <<"'">>
      [] data.t = "list" -> <<"[">> \o ReprItems(data.items) \o <<"]">>
      [] data.t = "dict" -> <<"{">> \o ReprMembers(data.pairs) \o <<"}">>
ReprItems(items) ==
    IF items = <<>> THEN <<>>
    ELSE py_repr(Head(items))
         \o (IF Len(items) > 1 THEN <<",", " ">> ELSE <<>>) \o ReprItems(Tail(items))
ReprMembers(pairs) ==
    IF pairs = <<>> THEN <<>>
    ELSE py_repr(JStr(Head(pairs)[1])) \o <<":", " ">> \o py_repr(Head(pairs)[2])
         \o (IF Len(pairs) > 1 THEN <<",", " ">> ELSE <<>>) \o ReprMembers(Tail(pairs))

\* str(data) of a value that can be printed.
py_str(data) == IF data.t = "str" THEN data.s ELSE py_repr(data)

\* str_data[:max_length]
Slice(text, max_length) == SubSeq(text, 1, IF Len(text) < max_length THEN Len(text) ELSE max_length)

ErrorSanitizing == <<"[", "E", "R", "R", "O", "R", " ", "S", "A", "N", "I", "T", "I", "Z", "I", "N", "G", " ", "D", "A", "T", "A", "]">>
NoText == <<"<", "N", "o", "n", "e", ">">>

\* sanitize_data with containers printed by str() as every other value is.
SanitizeByStr(data, max_length) ==
    IF data.t = "null" THEN NoText
    ELSE IF data.t = "unprintable" THEN ErrorSanitizing
    ELSE Slice(py_str(data), max_length)

\* LoggingService.sanitize_data(data, max_length), on text: None for None
\* (NoText), the JSON text of a dict or list and str() of anything else, cut
\* to max_length characters; the marker "[ERROR SANITIZING DATA]"
\* (ErrorSanitizing) when printing raises.
sanitize_data_text(data, max_length) ==
    IF data.t = "null" THEN NoText
    ELSE IF data.t = "unprintable" THEN ErrorSanitizing
    ELSE LET str_data == IF IsStructured(data) THEN json_dumps(data) ELSE py_str(data)
         IN IF Len(str_data) > max_length THEN Slice(str_data, max_length) ELSE str_data

\* json.loads(text): a recursive-descent reading of the text; JError when
\* the text is not a JSON document.
JError == [t |-> "error"]
Fail == [ok |-> FALSE, val |-> JError, next |-> 0]
At(text, i) == IF i \in 1 .. Len(text) THEN text[i] ELSE "<eof>"
Expect(text, i, word) == \A k \in 1 .. Len(word) : At(text, i + k - 1) = word[k]

RECURSIVE ParseDigits(_, _, _)
ParseDigits(text, i, acc) ==
    IF IsDigit(At(text, i)) THEN ParseDigits(text, i + 1, acc * 10 + DigitValue(At(text, i)))
    ELSE [ok |-> TRUE, val |-> JInt(acc), next |-> i]

RECURSIVE ParseChars(_, _, _)
\* after the opening quote: the characters up to the closing quote
ParseChars(text, i, acc) ==
    LET c == At(text, i) IN
    IF c = "<eof>" THEN Fail
    ELSE IF c = "\"" THEN [ok |-> TRUE, val |-> JStr(acc), next |-> i + 1]
    ELSE IF c = "\\"
         THEN IF At(text, i + 1) \in {"\"", "\\"}
              THEN ParseChars(text, i + 2, Append(acc, At(text, i + 1)))
              ELSE Fail
    ELSE ParseChars(text, i + 1, Append(acc, c))

RECURSIVE ParseValue(_, _)
RECURSIVE ParseItems(_, _, _)
RECURSIVE ParseMembers(_, _, _)
ParseValue(text, i) ==
    LET c == At(text, i) IN
    IF Expect(text, i, <<"n", "u", "l", "l">>) THEN [ok |-> TRUE, val |-> JNull, next |-> i + 4]
    ELSE IF Expect(text, i, <<"t", "r", "u", "e">>) THEN [ok |-> TRUE, val |-> JBool(TRUE), next |-> i + 4]
    ELSE IF Expect(text, i, <<"f", "a", "l", "s", "e">>) THEN [ok |-> TRUE, val |-> JBool(FALSE), next |-> i + 5]
    ELSE IF IsDigit(c) THEN ParseDigits(text, i, 0)
    ELSE IF c = "\"" THEN ParseChars(text, i + 1, <<>>)
    ELSE IF c = "[" THEN (IF At(text, i + 1) = "]"
                          THEN [ok |-> TRUE, val |-> JList(<<>>), next |-> i + 2]
                          ELSE ParseItems(text, i + 1, <<>>))
    ELSE IF c = "{" THEN (IF At(text, i + 1) = "}"
                          THEN [ok |-> TRUE, val |-> JDict(<<>>), next |-> i + 2]
                          ELSE ParseMembers(text, i + 1, <<>>))
    ELSE Fail
\* items of an array, separated by "," and white space
ParseItems(text, i, acc) ==
    LET item == ParseValue(text, i) IN
    IF ~item.ok THEN Fail
    ELSE IF At(text, item.next) = "]"
         THEN [ok |-> TRUE, val |-> JList(Append(acc, item.val)), next |-> item.next + 1]
    ELSE IF At(text, item.next) = "," /\ At(text, item.next + 1) = " "
         THEN ParseItems(text, item.next + 2, Append(acc, item.val))
    ELSE Fail
\* members of an object: "key": value; a repeated key keeps its last value
ParseMembers(text, i, acc) ==
    IF At(text, i) # "\"" THEN Fail
    ELSE LET key == ParseChars(text, i + 1, <<>>) IN
         IF ~key.ok \/ At(text, key.next) # ":" \/ At(text, key.next + 1) # " " THEN Fail
         ELSE LET item == ParseValue(text, key.next + 2)
                  kept == SelectSeq(acc, LAMBDA pr : pr[1] # key.val.s)
                  now == Append(kept, <<key.val.s, item.val>>)
              IN IF ~item.ok THEN Fail
                 ELSE IF At(text, item.next) = "}"
                      THEN [ok |-> TRUE, val |-> JDict(now), next |-> item.next + 1]
                 ELSE IF At(text, item.next) = "," /\ At(text, item.next + 1) = " "
                      THEN ParseMembers(text, item.next + 2, now)
                 ELSE Fail
json_loads(text) ==
    LET r == ParseValue(text, 1)
    IN IF r.ok /\ r.next = Len(text) + 1 THEN r.val ELSE JError

NoProbe == [op |-> "none"]

\* ---------------------------------------------------------------- variables
VARIABLES
    middleware,          \* the RequestLoggingMiddleware class installed
    request_log,         \* table "request": sequence of RequestLog rows
    job_logs,            \* table "job_logs"
    action_logs,         \* table "action"
    flow,                \* per request: position in dispatch and its locals
    job,                 \* per background task: position in process_job
    current_request_id,  \* ContextVar, one value per task context
    current_job_id,      \* ContextVar of request_context, one value per task context
    job_context_job_id,  \* ContextVar of job_context, one value per task context
    jobs_submitted,      \* number of job ids minted
    faults_left,         \* persistence failures the environment may still inject
    obs,                 \* per job: statuses seen through get_job_status
    call,                \* the decorated call under test
    sink_calls,          \* calls made on the sink under test
    last_status,         \* last JobStatusResponse returned under test
    sink_result,         \* what the last call on the sink under test returned
    probe                \* a pure function under test: its input and its output

vars == <<middleware, request_log, job_logs, action_logs, flow, job,
          current_request_id, current_job_id, jobs_submitted,
          faults_left, obs, call, sink_calls, last_status,
          job_context_job_id, sink_result, probe>>

\* ------------------------------------------------------- Correlation Context
\* ContextVar.get() in task t.
CtxGet(var, t) == var[t]
\* ContextVar.set(v) in task t: only that task's context changes.
CtxSetGlobal(var, t, v) == [u \in DOMAIN var |-> v]
CtxSet(var, t, v) == [var EXCEPT ![t] = v]
\* A variant of reset that leaves the current value in place.
CtxResetKeep(var, t, token) == var
\* A variant of reset that restores the value in every task's context.
CtxResetAll(var, t, token) == [u \in DOMAIN var |-> token]
\* The token of ContextVar.set holds the value being replaced.
CtxToken(var, t) == var[t]
\* ContextVar.reset(token) in task t.
CtxReset(var, t, token) == [var EXCEPT ![t] = token]

\* get_request_id() / get_job_id()
get_request_id(t) == CtxGet(current_request_id, t)
get_job_id(t) == CtxGet(job_context_job_id, t)

\* ------------------------------------------------------------ LoggingService
RowIndex(tbl, key, v) ==
    IF \E i \in 1 .. Len(tbl) : tbl[i][key] = v
    THEN CHOOSE i \in 1 .. Len(tbl) :
            /\ tbl[i][key] = v
            /\ \A k \in 1 .. Len(tbl) : tbl[k][key] = v => i <= k
    ELSE 0

\* LoggingService.sanitize_data: None stays None; anything else is stored as
\* its textual encoding.
sanitize_data(data) == IF data = None THEN None ELSE "str:" \o data

\* A status code of 0 stands for None (no status code).
NoStatus(code) == code = 0

NewRequestRow(request_id) ==
    [request_id |-> request_id, status_code |-> 0, is_error |-> 0,
     error_message |-> None, error_traceback |-> None, end_time |-> FALSE,
     finalized |-> 0]

\* LoggingService.create_request_log: insert, or None when the insert fails
\* (persistence failure, or the unique index on request_id).
create_request_log(tbl, request_id, ok) ==
    IF ok /\ RowIndex(tbl, "request_id", request_id) = 0
    THEN [tbl |-> Append(tbl, NewRequestRow(request_id)), ret |-> Len(tbl) + 1]
    ELSE [tbl |-> tbl, ret |-> 0]

\* update_request_log that derives the error flag from the status code only.
UpdateRequestLogStatusOnly(tbl, request_id, status_code, error_message, error_traceback, ok) ==
    LET i == RowIndex(tbl, "request_id", request_id) IN
    IF ~ok \/ i = 0 THEN [tbl |-> tbl, ret |-> FALSE]
    ELSE
      LET r0 == [tbl[i] EXCEPT !.end_time = TRUE, !.finalized = @ + 1]
          r1 == IF ~NoStatus(status_code)
                THEN [r0 EXCEPT !.status_code = status_code,
                                !.is_error = IF status_code >= 400 THEN 1 ELSE 0]
                ELSE r0
          r2 == IF Truthy(error_message)
                THEN [r1 EXCEPT !.error_message = error_message]
                ELSE r1
          r3 == IF Truthy(error_traceback)
                THEN [r2 EXCEPT !.error_traceback = error_traceback]
                ELSE r2
      IN [tbl |-> [tbl EXCEPT ![i] = r3], ret |-> TRUE]

\* LoggingService.update_request_log
update_request_log(tbl, request_id, status_code, error_message, error_traceback, ok) ==
    LET i == RowIndex(tbl, "request_id", request_id) IN
    IF ~ok \/ i = 0 THEN [tbl |-> tbl, ret |-> FALSE]
    ELSE
      LET r0 == [tbl[i] EXCEPT !.end_time = TRUE, !.finalized = @ + 1]
          r1 == IF ~NoStatus(status_code)
                THEN [r0 EXCEPT !.status_code = status_code,
                                !.is_error = IF status_code >= 400 THEN 1 ELSE 0]
                ELSE r0
          r2 == IF Truthy(error_message)
                THEN [r1 EXCEPT !.error_message = error_message, !.is_error = 1]
                ELSE r1
          r3 == IF Truthy(error_traceback)
                THEN [r2 EXCEPT !.error_traceback = error_traceback]
                ELSE r2
      IN [tbl |-> [tbl EXCEPT ![i] = r3], ret |-> TRUE]

\* A variant that never links the job to its request.
CreateJobLogUnlinked(jl, rl, job_id, request_id, status, ok) ==
    IF ~ok \/ RowIndex(jl, "job_id", job_id) # 0
    THEN [tbl |-> jl, ret |-> 0]
    ELSE [tbl |-> Append(jl, [job_id |-> job_id, request_log_id |-> 0,
                              status |-> status, result_payload |-> None,
                              error_message |-> None, error_traceback |-> None,
                              end_time |-> FALSE]),
          ret |-> Len(jl) + 1]

\* LoggingService.create_job_log
create_job_log(jl, rl, job_id, request_id, status, ok) ==
    IF ~ok \/ RowIndex(jl, "job_id", job_id) # 0
    THEN [tbl |-> jl, ret |-> 0]
    ELSE
      LET req == IF Truthy(request_id) THEN RowIndex(rl, "request_id", request_id) ELSE 0
      IN [tbl |-> Append(jl, [job_id |-> job_id, request_log_id |-> req,
                              status |-> status, result_payload |-> None,
                              error_message |-> None, error_traceback |-> None,
                              end_time |-> FALSE]),
          ret |-> Len(jl) + 1]

\* A variant whose start marker is honoured and whose finish marker returns
\* the row to queued.
UpdateJobLogRequeue(jl, job_id, status, result_payload, error_message, error_traceback, mark_started, mark_finished, ok) ==
    LET i == RowIndex(jl, "job_id", job_id) IN
    IF ~ok \/ i = 0 THEN [tbl |-> jl, ret |-> FALSE]
    ELSE
      LET r1 == IF mark_finished THEN [jl[i] EXCEPT !.status = "queued"]
                ELSE IF Truthy(status) THEN [jl[i] EXCEPT !.status = status]
                ELSE IF mark_started THEN [jl[i] EXCEPT !.status = "running"]
                ELSE jl[i]
      IN [tbl |-> [jl EXCEPT ![i] = r1], ret |-> TRUE]

\* LoggingService.update_job_log. Reading an attribute the JobLog model does
\* not define raises AttributeError, which the method catches: the
\* transaction is rolled back and False is returned.
update_job_log(jl, job_id, status, result_payload, error_message, error_traceback, mark_started, mark_finished, ok) ==
    LET i == RowIndex(jl, "job_id", job_id) IN
    IF ~ok \/ i = 0 THEN [tbl |-> jl, ret |-> FALSE]
    ELSE IF mark_started /\ "started_at" \notin JobLogAttrs
    THEN [tbl |-> jl, ret |-> FALSE]
    ELSE
      LET r0 == IF mark_started
                THEN [jl[i] EXCEPT !.status = IF Truthy(status) THEN status ELSE "running"]
                ELSE jl[i]
          r1 == IF Truthy(status) THEN [r0 EXCEPT !.status = status] ELSE r0
          r2 == IF result_payload # None
                THEN [r1 EXCEPT !.result_payload = sanitize_data(result_payload)]
                ELSE r1
          r3 == IF Truthy(error_message)
                THEN [r2 EXCEPT !.error_message = error_message]
                ELSE r2
          r4 == IF Truthy(error_traceback)
                THEN [r3 EXCEPT !.error_traceback = error_traceback]
                ELSE r3
      IN [tbl |-> [jl EXCEPT ![i] = r4], ret |-> TRUE]

\* create_action_log without the check that an owner was found.
CreateActionLogUnguarded(al, rl, jl, action_name, request_id, job_id, ok) ==
    LET req == IF Truthy(request_id) THEN RowIndex(rl, "request_id", request_id) ELSE 0
        jb == IF Truthy(job_id) THEN RowIndex(jl, "job_id", job_id) ELSE 0
    IN IF ~ok THEN [tbl |-> al, ret |-> 0]
       ELSE [tbl |-> Append(al, [request_id |-> req, job_log_id |-> jb,
                                 action_name |-> action_name,
                                 output_results |-> None, error_message |-> None,
                                 is_error |-> 0, end_time |-> FALSE, updates |-> 0]),
             ret |-> Len(al) + 1]

\* LoggingService.create_action_log: the owners are looked up by id; with
\* neither found nothing is written.
create_action_log(al, rl, jl, action_name, request_id, job_id, ok) ==
    LET req == IF Truthy(request_id) THEN RowIndex(rl, "request_id", request_id) ELSE 0
        jb == IF Truthy(job_id) THEN RowIndex(jl, "job_id", job_id) ELSE 0
    IN IF ~ok \/ (req = 0 /\ jb = 0) THEN [tbl |-> al, ret |-> 0]
       ELSE [tbl |-> Append(al, [request_id |-> req, job_log_id |-> jb,
                                 action_name |-> action_name,
                                 output_results |-> None, error_message |-> None,
                                 is_error |-> 0, end_time |-> FALSE, updates |-> 0]),
             ret |-> Len(al) + 1]

\* update_action_log whose session commits what was written before the failure.
UpdateActionLogNoRollback(al, action_log_id, output_result, error_message, ok) ==
    IF action_log_id \notin 1 .. Len(al) THEN [tbl |-> al, ret |-> FALSE]
    ELSE
      LET r0 == [al[action_log_id] EXCEPT !.end_time = TRUE, !.updates = @ + 1]
          r1 == IF output_result # None
                THEN [r0 EXCEPT !.output_results = sanitize_data(output_result)]
                ELSE r0
          r2 == IF Truthy(error_message)
                THEN [r1 EXCEPT !.error_message = error_message, !.is_error = 1]
                ELSE r1
      IN IF ok THEN [tbl |-> [al EXCEPT ![action_log_id] = r2], ret |-> TRUE]
         ELSE [tbl |-> [al EXCEPT ![action_log_id] = r0], ret |-> FALSE]

\* LoggingService.update_action_log
update_action_log(al, action_log_id, output_result, error_message, ok) ==
    IF ~ok \/ action_log_id \notin 1 .. Len(al) THEN [tbl |-> al, ret |-> FALSE]
    ELSE
      LET r0 == [al[action_log_id] EXCEPT !.end_time = TRUE, !.updates = @ + 1]
          r1 == IF output_result # None
                THEN [r0 EXCEPT !.output_results = sanitize_data(output_result)]
                ELSE r0
          r2 == IF Truthy(error_message)
                THEN [r1 EXCEPT !.error_message = error_message, !.is_error = 1]
                ELSE r1
      IN [tbl |-> [al EXCEPT ![action_log_id] = r2], ret |-> TRUE]


\* --------------------------------------------------------------- log_action
\* Arguments of a decorated call, by what the decorator can tell of them:
\*   "request"      a Request (rid: its state.request_id, None when unset)
\*   "plain"        any other truthy value
\*   "falsy"        a value whose truth value is False (None, 0, "")
\*   "bool_raises"  a value whose truth test raises (its __bool__ or __len__)
ArgObjects == {[kind |-> "request", rid |-> "c1"], [kind |-> "request", rid |-> None],
               [kind |-> "plain", rid |-> None], [kind |-> "falsy", rid |-> None],
               [kind |-> "bool_raises", rid |-> None]}
NoArg == [kind |-> "falsy", rid |-> None]

\* _is_fastapi_request
_is_fastapi_request(obj) == obj.kind = "request"

\* The truth test `if req and ...` of _find_request_id raises for some values.
TruthTestRaises(obj) == obj.kind = "bool_raises"

FirstRequestWithId(args) ==
    IF \E i \in 1 .. Len(args) : _is_fastapi_request(args[i]) /\ Truthy(args[i].rid)
    THEN LET i == CHOOSE i \in 1 .. Len(args) :
                    /\ _is_fastapi_request(args[i]) /\ Truthy(args[i].rid)
                    /\ \A k \in 1 .. Len(args) :
                          (_is_fastapi_request(args[k]) /\ Truthy(args[k].rid)) => i <= k
         IN args[i].rid
    ELSE None

\* A _find_request_id that stops at the first request it meets, with or
\* without an id.
FindRequestIdFirstHandle(args, kw_request, ambient) ==
    IF kw_request.kind \notin {"falsy", "bool_raises"} /\ _is_fastapi_request(kw_request)
    THEN kw_request.rid
    ELSE IF \E i \in 1 .. Len(args) : _is_fastapi_request(args[i])
    THEN args[CHOOSE i \in 1 .. Len(args) :
                /\ _is_fastapi_request(args[i])
                /\ \A k \in 1 .. Len(args) : _is_fastapi_request(args[k]) => i <= k].rid
    ELSE ambient

\* _find_request_id: the `request` keyword argument, then the positional
\* arguments, then the context variable. kw_request = NoArg when the call
\* has no `request` keyword (kwargs.get gives None).
_find_request_id(args, kw_request, ambient) ==
    IF kw_request.kind \notin {"falsy", "bool_raises"}
        /\ _is_fastapi_request(kw_request) /\ Truthy(kw_request.rid)
    THEN kw_request.rid
    ELSE IF FirstRequestWithId(args) # None THEN FirstRequestWithId(args)
    ELSE ambient

\* A variant that writes a row of its own when there is no request id.
DecCreateOrphan(al, rl, jl, action_name, request_id, ok) ==
    IF ~Truthy(request_id)
    THEN [tbl |-> Append(al, [request_id |-> 0, job_log_id |-> 0,
                              action_name |-> action_name,
                              output_results |-> None, error_message |-> None,
                              is_error |-> 0, end_time |-> FALSE, updates |-> 0]),
          ret |-> Len(al) + 1]
    ELSE [tbl |-> al, ret |-> 0]

\* log_action.create_action_log: nothing is created without a request id;
\* the sink is called with the request id only.
DecCreateActionLog(al, rl, jl, action_name, request_id, ok) ==
    IF ~Truthy(request_id) THEN [tbl |-> al, ret |-> 0]
    ELSE create_action_log(al, rl, jl, action_name, request_id, None, ok)

\* log_action.update_with_result
update_with_result(al, action_log_id, result, log_result, ok) ==
    IF ~(action_log_id # 0 /\ log_result) THEN al
    ELSE update_action_log(al, action_log_id, result, None, ok).tbl

\* log_action.update_with_error
update_with_error(al, action_log_id, err, ok) ==
    IF action_log_id = 0 THEN al
    ELSE update_action_log(al, action_log_id, None, err, ok).tbl

\* ------------------------------------------------------------------ faults
\* Outcomes of one persistence step: it may fail while the environment still
\* has failures to inject.
Failures(plan) == Cardinality({i \in DOMAIN plan : ~plan[i]})
\* The outcomes of the n persistence steps of one action (TRUE: it succeeds).
FaultPlans(n) == {plan \in [1 .. n -> BOOLEAN] : Failures(plan) <= faults_left}


\* ------------------------------------------- RequestLoggingMiddleware (both)
FlowInit ==
    [pc |-> "idle", header |-> None, in_use |-> FALSE,
     request_uuid |-> None, token |-> None, state_request_id |-> None,
     db_open |-> FALSE, row |-> 0, created |-> 0, called |-> FALSE,
     status |-> 0, exc |-> None, outcome |-> None,
     q_job |-> 0, q_status |-> None, q_result |-> None, q_error |-> None]

\* Exceptions that `except Exception` does not catch.
BaseExceptions == {"CancelledError"}

\* dispatch returns or raises: its locals are gone; what is kept is what left
\* it (the response or the exception), whether its session is still open,
\* the row it made, whether the handler was called and what it had raised.
Leaves(fl, outcome, db_open) ==
    [FlowInit EXCEPT !.pc = "done", !.outcome = outcome, !.db_open = db_open,
                     !.row = fl.row, !.created = fl.created, !.exc = fl.exc,
                     !.called = fl.called]

\* Requests are interchangeable: they are taken up in index order.
InFlight == {g \in Flows : flow[g].pc \notin {"idle", "done"}}
MayBegin(f) ==
    /\ flow[f].pc = "idle"
    /\ IF f = 1 THEN TRUE ELSE flow[f - 1].pc # "idle"
    /\ Cardinality(InFlight) < MaxInFlight

\* A variant that adopts any well-formed header without looking it up.
GetOrGenerateUnchecked(tbl, client_request_id, fresh) ==
    IF ~Truthy(client_request_id) THEN fresh
    ELSE IF ~UuidParses(client_request_id) THEN fresh
    ELSE UuidStr(client_request_id)

\* _get_or_generate_request_id; fresh is the identifier uuid4 would mint.
_get_or_generate_request_id(tbl, client_request_id, fresh) ==
    IF ~Truthy(client_request_id) THEN fresh
    ELSE IF ~UuidParses(client_request_id) THEN fresh
    ELSE IF RowIndex(tbl, "request_id", UuidStr(client_request_id)) # 0 THEN fresh
    ELSE UuidStr(client_request_id)

\* The finally block of logging_middleware.dispatch: db.close(), reset(token).
LM_Finally(f) ==
    current_request_id' = CtxReset(current_request_id, f, flow[f].token)

\* logging_middleware.dispatch, lines 147-162: open the session, derive the
\* request id (one lookup when the header parses), set the context variable.
LM_Begin(f) ==
    /\ middleware = "logging_middleware"
    /\ MayBegin(f)
    /\ \E h \in ClientHeaders : \E plan \in FaultPlans(1) :
         LET query == Truthy(h) /\ UuidParses(h)
             fresh == Uuid4(f)
             rid == _get_or_generate_request_id(request_log, h, fresh)
         IN /\ (~query => plan[1])
            /\ faults_left' = faults_left - Failures(plan)
            /\ IF ~plan[1]
               THEN \* the lookup raises before the try block is entered
                    /\ flow' = [flow EXCEPT ![f] = Leaves(@, "DBError", TRUE)]
                    /\ UNCHANGED current_request_id
               ELSE /\ flow' = [flow EXCEPT ![f] = [@ EXCEPT !.pc = "read_body",
                                   !.header = h, !.db_open = TRUE,
                                   !.in_use = query /\ RowIndex(request_log, "request_id", UuidStr(h)) # 0,
                                   !.request_uuid = rid,
                                   !.token = CtxToken(current_request_id, f)]]
                    /\ current_request_id' = CtxSet(current_request_id, f, rid)
    /\ UNCHANGED <<middleware, probe, job_context_job_id, sink_result, request_log, job_logs, action_logs, job,
                   current_job_id, jobs_submitted, obs, call, sink_calls, last_status>>

\* logging_middleware.dispatch, line 165: `await request.body()` stands
\* before the try block; when it raises (the client disconnects) the
\* exception leaves dispatch at once.
LM_ReadBody(f) ==
    /\ middleware = "logging_middleware"
    /\ flow[f].pc = "read_body"
    /\ \E body_ok \in BOOLEAN :
         flow' = [flow EXCEPT ![f] =
                    IF body_ok
                    THEN [@ EXCEPT !.pc = "create", !.header = None, !.in_use = FALSE]
                    ELSE Leaves(@, "ClientDisconnect", TRUE)]
    /\ UNCHANGED <<middleware, probe, job_context_job_id, sink_result, request_log, job_logs, action_logs, job,
                   current_request_id, current_job_id, jobs_submitted,
                   faults_left, obs, call, sink_calls, last_status>>

\* db.add(req_log); db.commit(): the insert fails on a persistence failure
\* or on the unique index of request_id.
InsertCommits(tbl, request_id, ok) == ok /\ RowIndex(tbl, "request_id", request_id) = 0

\* logging_middleware.dispatch, lines 188-217 and, when the insert fails,
\* the except and finally blocks (253-305): the row is inserted and the
\* handler called, or the row is inserted again as a failed request and the
\* persistence error raised.
LM_Create(f) ==
    /\ middleware = "logging_middleware"
    /\ flow[f].pc = "create"
    /\ \E plan \in FaultPlans(2) :
         LET rid == flow[f].request_uuid
             first == InsertCommits(request_log, rid, plan[1])
             second == InsertCommits(request_log, rid, plan[2])
             failed == [NewRequestRow(rid) EXCEPT !.status_code = 500, !.is_error = 1,
                           !.error_message = "DBError",
                           !.error_traceback = "traceback", !.end_time = TRUE,
                           !.finalized = 1]
         IN /\ (first => plan[2])
            /\ faults_left' = faults_left - Failures(plan)
            /\ IF first
               THEN /\ request_log' = Append(request_log, NewRequestRow(rid))
                    /\ flow' = [flow EXCEPT ![f] = [@ EXCEPT !.pc = "handler",
                                   !.row = Len(request_log) + 1, !.created = 1,
                                   !.called = TRUE, !.state_request_id = rid]]
                    /\ UNCHANGED current_request_id
               ELSE /\ request_log' = IF second THEN Append(request_log, failed)
                                      ELSE request_log
                    /\ flow' = [flow EXCEPT ![f] = Leaves(
                                   [@ EXCEPT !.row = IF second THEN Len(request_log) + 1 ELSE 0,
                                             !.created = IF second THEN 1 ELSE 0],
                                   "DBError", FALSE)]
                    /\ LM_Finally(f)
    /\ UNCHANGED <<middleware, probe, job_context_job_id, sink_result, job_logs, action_logs, job, current_job_id,
                   jobs_submitted, obs, call, sink_calls, last_status>>

\* The finalize mutation of logging_middleware.dispatch on its own row.
LM_Finalized(row, status_code, error_message) ==
    [row EXCEPT !.status_code = status_code,
                !.is_error = IF status_code >= 400 THEN 1 ELSE 0,
                !.error_message = IF error_message = None THEN @ ELSE error_message,
                !.error_traceback = IF error_message = None THEN @ ELSE "traceback",
                !.end_time = TRUE, !.finalized = @ + 1]

\* logging_middleware.dispatch, lines 219-305, once call_next has returned
\* or raised: the response branch (and the except branch when its commit
\* fails), the except branch, and the finally block.
LM_Finalize(f) ==
    /\ middleware = "logging_middleware"
    /\ flow[f].pc = "respond"
    /\ \E plan \in FaultPlans(2) :
         LET i == flow[f].row
             e == flow[f].exc
             have == i \in 1 .. Len(request_log)
         IN /\ faults_left' = faults_left - Failures(plan)
            /\ IF e \in BaseExceptions
               THEN \* not an Exception: only the finally block runs
                    /\ plan[1] /\ plan[2]
                    /\ UNCHANGED request_log
                    /\ flow' = [flow EXCEPT ![f] = Leaves(@, e, FALSE)]
               ELSE IF e # None
               THEN \* except branch: status 500, the message, then re-raise
                    /\ plan[2]
                    /\ request_log' = IF plan[1] /\ have
                          THEN [request_log EXCEPT ![i] = LM_Finalized(@, 500, e)]
                          ELSE request_log
                    /\ flow' = [flow EXCEPT ![f] =
                                   Leaves(@, IF plan[1] THEN e ELSE "DBError", FALSE)]
               ELSE \* response branch; a failed commit enters the except branch
                    /\ (plan[1] => plan[2])
                    /\ request_log' =
                          IF plan[1] /\ have
                          THEN [request_log EXCEPT ![i] = LM_Finalized(@, flow[f].status, None)]
                          ELSE IF plan[2] /\ have
                          THEN [request_log EXCEPT ![i] = LM_Finalized(@, 500, "DBError")]
                          ELSE request_log
                    /\ flow' = [flow EXCEPT ![f] =
                                   Leaves(@, IF plan[1] THEN "response" ELSE "DBError", FALSE)]
    /\ LM_Finally(f)
    /\ UNCHANGED <<middleware, probe, job_context_job_id, sink_result, job_logs, action_logs, job, current_job_id,
                   jobs_submitted, obs, call, sink_calls, last_status>>

\* request_logging.dispatch, lines 22-32: mint the id, attach it to the
\* request and set the context variable.
RL_Begin(f) ==
    /\ middleware = "request_logging"
    /\ MayBegin(f)
    /\ LET rid == Uuid4(f)
       IN /\ flow' = [flow EXCEPT ![f] = [@ EXCEPT !.pc = "read_body",
                         !.request_uuid = rid,
                         !.state_request_id = rid,
                         !.token = CtxToken(current_request_id, f)]]
          /\ current_request_id' = CtxSet(current_request_id, f, rid)
    /\ UNCHANGED <<middleware, probe, job_context_job_id, sink_result, request_log, job_logs, action_logs, job,
                   current_job_id, jobs_submitted, faults_left, obs, call,
                   sink_calls, last_status>>

\* request_logging.dispatch, lines 34-62: the body read is guarded (a failure
\* is logged and ignored), the row is created through the sink and the
\* handler is called.
RL_ReadBody(f) ==
    /\ middleware = "request_logging"
    /\ flow[f].pc = "read_body"
    /\ \E body_ok \in BOOLEAN : \E plan \in FaultPlans(1) :
         LET made == create_request_log(request_log, flow[f].request_uuid, plan[1])
         IN /\ faults_left' = faults_left - Failures(plan)
            /\ request_log' = made.tbl
            /\ flow' = [flow EXCEPT ![f] = [@ EXCEPT !.pc = "handler",
                           !.row = made.ret, !.called = TRUE,
                           !.created = IF made.ret # 0 THEN 1 ELSE 0]]
    /\ UNCHANGED <<middleware, probe, job_context_job_id, sink_result, job_logs, action_logs, job, current_request_id,
                   current_job_id, jobs_submitted, obs, call,
                   sink_calls, last_status>>

\* request_logging.dispatch, lines 63-84: the finally block updates the row
\* through the sink and resets the context variable; the response or the
\* exception of the handler leaves dispatch.
RL_Finalize(f) ==
    /\ middleware = "request_logging"
    /\ flow[f].pc = "respond"
    /\ \E plan \in FaultPlans(1) :
         LET e == flow[f].exc
             caught == e # None /\ e \notin BaseExceptions
             upd == update_request_log(request_log, flow[f].request_uuid,
                       IF caught THEN 500 ELSE IF e = None THEN flow[f].status ELSE 0,
                       IF caught THEN e ELSE None,
                       IF caught THEN "traceback" ELSE None, plan[1])
         IN /\ faults_left' = faults_left - Failures(plan)
            /\ request_log' = upd.tbl
            /\ flow' = [flow EXCEPT ![f] =
                           Leaves(@, IF e = None THEN "response" ELSE e, FALSE)]
    /\ current_request_id' = CtxReset(current_request_id, f, flow[f].token)
    /\ UNCHANGED <<middleware, probe, job_context_job_id, sink_result, job_logs, action_logs, job, current_job_id,
                   jobs_submitted, obs, call, sink_calls, last_status>>


\* ------------------------------------------------- endpoints (migration.py)
\* process_job waits 10 seconds, one decorated call per second, then runs
\* four decorated pipeline steps.
WaitSeconds == 10
PipelineSteps == 4

\* What the work of a job does: it completes (None), or raises an Exception
\* whose message is the given text.
WorkOutcomes == {None, "WorkError", ""}

JobInit ==
    [pc |-> "none", flow |-> 0, job_id |-> None, request_id |-> None,
     req_token |-> None, job_token |-> None, action_log_id |-> 0,
     raised |-> FALSE, exc_msg |-> None, outcome |-> None]

\* The Request object FastAPI passes to an endpoint as keyword `request`.
RequestArg(f) == [kind |-> "request", rid |-> flow[f].state_request_id]

\* Append a status to the statuses observed for a job (repeats collapsed).
Observe(seen, status) ==
    IF Len(seen) > 0 /\ seen[Len(seen)] = status THEN seen ELSE Append(seen, status)

\* n calls in a row of one decorated function that returns: each call
\* appends its action row and completes it, so the rows are n copies of the
\* row one call leaves behind.
RunActions(al, rl, jl, n, action_name, rid_ok) ==
    LET made == DecCreateActionLog(<<>>, rl, jl, action_name, rid_ok[1], rid_ok[2])
        one == update_with_result(made.tbl, made.ret, "dict", TRUE, rid_ok[2])
    IN IF Len(one) = 0 THEN al
       ELSE al \o [k \in 1 .. n |-> one[1]]

\* wait_for(seconds): one action of its own around one action per second.
wait_for(al, rl, jl, seconds, rid, ok) ==
    LET made == DecCreateActionLog(al, rl, jl, "wait_time", rid, ok)
        ticks == RunActions(made.tbl, rl, jl, seconds, "wait_one_second", <<rid, ok>>)
    IN update_with_result(ticks, made.ret, "dict", TRUE, ok)

\* submit_job under @log_action: the action row, the JobLog row (queued),
\* the background task, the result. The endpoint has no suspension point.
HandlerSubmit(f) ==
    /\ flow[f].pc = "handler"
    /\ jobs_submitted < MaxJobs
    /\ \E plan \in FaultPlans(3) :
         LET j == jobs_submitted + 1
             rid == _find_request_id(<<>>, RequestArg(f), get_request_id(f))
             act == DecCreateActionLog(action_logs, request_log, job_logs,
                                       "submit_job", rid, plan[1])
             request_id == flow[f].state_request_id
             made == create_job_log(job_logs, request_log, JobUuid(j), request_id,
                                    "queued", plan[2])
         IN /\ faults_left' = faults_left - Failures(plan)
            /\ job_logs' = made.tbl
            /\ action_logs' = update_with_result(act.tbl, act.ret, JobUuid(j), TRUE, plan[3])
            /\ job' = [job EXCEPT ![j] = [@ EXCEPT !.pc = "scheduled", !.flow = f,
                          !.job_id = JobUuid(j), !.request_id = request_id]]
            /\ current_request_id' =
                  CtxSet(current_request_id, BgTask(j), get_request_id(f))
            /\ flow' = [flow EXCEPT ![f] = [@ EXCEPT !.pc = "respond", !.status = 200]]
    /\ jobs_submitted' = jobs_submitted + 1
    /\ UNCHANGED <<middleware, probe, job_context_job_id, sink_result, request_log, current_job_id, obs,
                   call, sink_calls, last_status>>

\* A variant that exposes the stored payload whatever the status.
JobStatusResponseAlways(row) ==
    [status |-> row.status, result |-> row.result_payload, error |-> row.error_message]

\* get_job_status, lines 303-323: the row is read; the result is exposed
\* only when the status is succeeded.
JobStatusResponse(row) ==
    [status |-> row.status,
     result |-> IF row.status = "succeeded" THEN row.result_payload ELSE None,
     error |-> row.error_message]

\* get_job_status under @log_action. A job that is not found raises
\* HTTPException(404), which the framework turns into a 404 response.
HandlerStatus(f, j) ==
    /\ flow[f].pc = "handler"
    /\ \E plan \in FaultPlans(3) :
         LET rid == _find_request_id(<<>>, RequestArg(f), get_request_id(f))
             act == DecCreateActionLog(action_logs, request_log, job_logs,
                                       "get_job_status", rid, plan[1])
             i == RowIndex(job_logs, "job_id", JobUuid(j))
         IN /\ faults_left' = faults_left - Failures(plan)
            /\ (~plan[2] => plan[3])
            /\ IF ~plan[2]
               THEN \* the query raises: the action records it, the handler fails
                    /\ action_logs' = update_with_error(act.tbl, act.ret, "DBError", plan[3])
                    /\ flow' = [flow EXCEPT ![f] = [@ EXCEPT !.pc = "respond",
                                   !.exc = "DBError"]]
                    /\ UNCHANGED obs
               ELSE IF i = 0
               THEN /\ action_logs' = update_with_error(act.tbl, act.ret,
                                                        "404: Job not found", plan[3])
                    /\ flow' = [flow EXCEPT ![f] = [@ EXCEPT !.pc = "respond",
                                   !.status = 404]]
                    /\ UNCHANGED obs
               ELSE LET resp == JobStatusResponse(job_logs[i])
                    IN /\ action_logs' = update_with_result(act.tbl, act.ret,
                                                            resp.status, TRUE, plan[3])
                       /\ flow' = [flow EXCEPT ![f] = [@ EXCEPT !.pc = "respond",
                                      !.status = 200, !.q_job = j,
                                      !.q_status = resp.status,
                                      !.q_result = resp.result,
                                      !.q_error = resp.error]]
                       /\ obs' = [obs EXCEPT ![j] = Observe(@, resp.status)]
    /\ UNCHANGED <<middleware, probe, job_context_job_id, sink_result, request_log, job_logs, job, current_request_id,
                   current_job_id, jobs_submitted, call, sink_calls,
                   last_status>>

\* Any other endpoint: it responds, raises, or is cancelled.
HandlerOther(f) ==
    /\ flow[f].pc = "handler"
    /\ \E o \in {"response", "HandlerError", "CancelledError"} :
         flow' = [flow EXCEPT ![f] =
                    IF o = "response" THEN [@ EXCEPT !.pc = "respond", !.status = 200]
                    ELSE [@ EXCEPT !.pc = "respond", !.exc = o]]
    /\ UNCHANGED <<middleware, probe, job_context_job_id, sink_result, request_log, job_logs, action_logs, job,
                   current_request_id, current_job_id, jobs_submitted,
                   faults_left, obs, call, sink_calls, last_status>>

\* process_job under @log_action, lines 130-152: the decorator's action row,
\* the two context variables, the update to running.
JobStart(j) ==
    /\ job[j].pc = "scheduled"
    /\ \E plan \in FaultPlans(2) :
         LET t == BgTask(j)
             rid == _find_request_id(<<>>, NoArg, get_request_id(t))
             act == DecCreateActionLog(action_logs, request_log, job_logs,
                                       "process_job", rid, plan[1])
             upd == update_job_log(job_logs, job[j].job_id, "running", None, None,
                                   None, TRUE, FALSE, plan[2])
         IN /\ faults_left' = faults_left - Failures(plan)
            /\ action_logs' = act.tbl
            /\ job_logs' = upd.tbl
            /\ job' = [job EXCEPT ![j] = [@ EXCEPT !.pc = "working",
                          !.action_log_id = act.ret,
                          !.req_token = CtxToken(current_request_id, t),
                          !.job_token = CtxToken(current_job_id, t)]]
            /\ current_request_id' = CtxSet(current_request_id, t, job[j].request_id)
            /\ current_job_id' = CtxSet(current_job_id, t, job[j].job_id)
    /\ UNCHANGED <<middleware, probe, job_context_job_id, sink_result, request_log, flow, jobs_submitted, obs,
                   call, sink_calls, last_status>>

\* process_job, lines 154-211: the work, made of decorated calls; it
\* completes, or a pipeline step raises.
JobWork(j) ==
    /\ job[j].pc = "working"
    /\ \E msg \in WorkOutcomes : \E raises \in {msg # None} :
         /\ job' = [job EXCEPT ![j] = [@ EXCEPT !.pc = "finishing", !.raised = raises,
                                                !.exc_msg = msg]]
         /\ \E plan \in FaultPlans(1) :
            \E rid \in {_find_request_id(<<>>, NoArg, get_request_id(BgTask(j)))} :
            \E waited \in {wait_for(action_logs, request_log, job_logs, WaitSeconds,
                                    rid, plan[1])} :
            \E step \in {DecCreateActionLog(waited, request_log, job_logs,
                                            "pipeline_step", rid, plan[1])} :
              /\ faults_left' = faults_left - Failures(plan)
              /\ action_logs' =
                    IF raises
                    THEN update_with_error(step.tbl, step.ret, msg, plan[1])
                    ELSE RunActions(waited, request_log, job_logs, PipelineSteps,
                                    "pipeline_step", <<rid, plan[1]>>)
    /\ UNCHANGED <<middleware, probe, job_context_job_id, sink_result, request_log, job_logs, flow, current_request_id,
                   current_job_id, jobs_submitted, obs, call,
                   sink_calls, last_status>>

\* A variant that stores the succeeded status without the result.
TerminalUpdateNoResult(jl, job_id, raised, msg, ok) ==
    IF raised
    THEN update_job_log(jl, job_id, "failed", None, msg, "traceback", FALSE, TRUE, ok)
    ELSE update_job_log(jl, job_id, "succeeded", None, None, None, FALSE, TRUE, ok)

\* The terminal update of process_job: succeeded with the result (213-219),
\* or failed with the message in the except branch (224-231).
TerminalUpdate(jl, job_id, raised, msg, ok) ==
    IF raised
    THEN update_job_log(jl, job_id, "failed", None, msg, "traceback", FALSE, TRUE, ok)
    ELSE update_job_log(jl, job_id, "succeeded", "result", None, None, FALSE, TRUE, ok)

\* process_job, lines 213-242, and the decorator's exit: the terminal update,
\* the reset of both context variables, the result on the action row.
JobFinish(j) ==
    /\ job[j].pc = "finishing"
    /\ \E plan \in FaultPlans(2) :
         LET t == BgTask(j)
             upd == TerminalUpdate(job_logs, job[j].job_id, job[j].raised,
                                   job[j].exc_msg, plan[1])
         IN /\ faults_left' = faults_left - Failures(plan)
            /\ job_logs' = upd.tbl
            /\ action_logs' = update_with_result(action_logs, job[j].action_log_id,
                                                 "dict", TRUE, plan[2])
            /\ current_request_id' = CtxReset(current_request_id, t, job[j].req_token)
            /\ current_job_id' = CtxReset(current_job_id, t, job[j].job_token)
            /\ job' = [job EXCEPT ![j] = [@ EXCEPT !.pc = "done", !.outcome = "returned"]]
    /\ UNCHANGED <<middleware, probe, job_context_job_id, sink_result, request_log, flow, jobs_submitted, obs,
                   call, sink_calls, last_status>>

\* ------------------------------------------------------------ harness state
NoOutcome == [kind |-> "none", exc |-> None, msg |-> None]
CallInit ==
    [pc |-> "idle", is_coro |-> FALSE, log_result |-> FALSE, log_params |-> FALSE,
     kw_request |-> NoArg, kw_job_id |-> None, args |-> <<>>,
     behaviour |-> NoOutcome, sink |-> None, capture |-> None,
     resolved |-> None, input_params |-> None,
     action_log_id |-> 0, invoked |-> 0, outcome |-> NoOutcome]
NoSinkResult == [op |-> None, ok |-> TRUE, ret |-> None]
NoStatusResponse == [status |-> None, result |-> None, error |-> None, stored |-> None]

\* ------------------------------------------------------------ the application
InitStore ==
    /\ request_log = <<>>
    /\ job_logs = <<>>
    /\ action_logs = <<>>
    /\ current_request_id = [t \in Tasks |-> None]
    /\ current_job_id = [t \in Tasks |-> None]
    /\ jobs_submitted = 0
    /\ flow = [f \in Flows |-> FlowInit]
    /\ job = [j \in Jobs |-> JobInit]
    /\ obs = [j \in Jobs |-> <<>>]
    /\ call = CallInit
    /\ sink_calls = 0
    /\ last_status = NoStatusResponse
    /\ job_context_job_id = [t \in Tasks |-> None]
    /\ sink_result = NoSinkResult

Init ==
    /\ middleware \in {"logging_middleware", "request_logging"}
    /\ faults_left = 0
    /\ InitStore
    /\ probe = NoProbe

Next ==
    \/ \E f \in Flows : LM_Begin(f)
    \/ \E f \in Flows : LM_ReadBody(f)
    \/ \E f \in Flows : LM_Create(f)
    \/ \E f \in Flows : LM_Finalize(f)
    \/ \E f \in Flows : RL_Begin(f)
    \/ \E f \in Flows : RL_ReadBody(f)
    \/ \E f \in Flows : RL_Finalize(f)
    \/ \E f \in Flows : HandlerSubmit(f)
    \/ \E f \in Flows : \E j \in Jobs : HandlerStatus(f, j)
    \/ \E f \in Flows : HandlerOther(f)
    \/ \E j \in Jobs : JobStart(j)
    \/ \E j \in Jobs : JobWork(j)
    \/ \E j \in Jobs : JobFinish(j)

Spec == Init /\ [][Next]_vars

\* The application with a database that may fail: MaxFaults persistence steps,
\* chosen by the environment, raise.
MaxFaults == 1
InitFaults ==
    /\ middleware \in {"logging_middleware", "request_logging"}
    /\ faults_left = MaxFaults
    /\ InitStore
    /\ probe = NoProbe
SpecFaults == InitFaults /\ [][Next]_vars


\* Under fair scheduling of the background path every step of process_job
\* is eventually taken.
FairSpec ==
    /\ Init /\ [][Next]_vars
    /\ \A j \in Jobs : WF_vars(JobStart(j)) /\ WF_vars(JobWork(j)) /\ WF_vars(JobFinish(j))

\* ------------------------------------------------- a decorated call, alone
\* What the undecorated function does with its arguments: it returns a
\* value, raises an Exception, or raises a BaseException (it is cancelled).
Behaviours ==
    {[kind |-> "return", exc |-> None, msg |-> "v"],
     [kind |-> "raise", exc |-> "ValueError", msg |-> "boom"],
     [kind |-> "raise", exc |-> "ValueError", msg |-> ""],
     [kind |-> "raise", exc |-> "CancelledError", msg |-> ""]}
\* What the truth test of an argument raises.
TruthTestError == [kind |-> "raise", exc |-> "TruthTestError", msg |-> "ambiguous"]
\* The sink during the call: available, failing inside LoggingService (which
\* then returns None / False), or raising on every call.
SinkModes == {"ok", "fails", "raises"}
ArgLists == UNION {[1 .. n -> ArgObjects] : n \in 0 .. MaxArgs}
\* The explicit job_id keyword argument of the call, when it has one.
KwJobIds == {None, "job1"}

\* sync_wrapper / async_wrapper up to the call of func: resolve the request
\* id (outside any try block), capture the parameters (inside one; binding
\* or filtering may raise), create the action row.
DecEnter ==
    /\ call.pc = "idle"
    /\ \E is_coro, log_result, log_params, capture_ok \in BOOLEAN :
       \E kw \in ArgObjects : \E kw_job \in KwJobIds : \E args \in ArgLists :
       \E b \in Behaviours : \E sink \in SinkModes :
         LET c == [call EXCEPT !.is_coro = is_coro, !.log_result = log_result,
                               !.log_params = log_params, !.kw_request = kw,
                               !.kw_job_id = kw_job,
                               !.args = args, !.behaviour = b, !.sink = sink,
                               !.capture = IF ~log_params THEN "skipped"
                                           ELSE IF capture_ok THEN "ok" ELSE "raises"]
             rid == _find_request_id(args, kw, get_request_id(1))
             made == DecCreateActionLog(action_logs, request_log, job_logs,
                                        "func", rid, sink = "ok")
         IN /\ (~log_params => capture_ok)
            /\ IF TruthTestRaises(kw)
               THEN /\ call' = [c EXCEPT !.pc = "done", !.resolved = "<raised>",
                                         !.outcome = TruthTestError]
                    /\ UNCHANGED action_logs
               ELSE /\ call' = [c EXCEPT !.pc = "running", !.resolved = rid,
                                  !.input_params =
                                      IF log_params /\ capture_ok THEN "params" ELSE None,
                                  !.action_log_id = made.ret]
                    /\ action_logs' = made.tbl
    /\ UNCHANGED <<middleware, probe, job_context_job_id, sink_result, request_log, job_logs, flow, job, current_request_id,
                   current_job_id, jobs_submitted, faults_left, obs, sink_calls,
                   last_status>>

\* sync_wrapper / async_wrapper from the call of func on: the function runs
\* once; its result or its Exception is recorded; what it did leaves the
\* wrapper (`return result`, `raise`). A BaseException passes through.
DecExit ==
    /\ call.pc = "running"
    /\ LET b == call.behaviour
           ok == call.sink = "ok"
       IN /\ action_logs' =
               IF b.kind = "return"
               THEN update_with_result(action_logs, call.action_log_id, b.msg,
                                       call.log_result, ok)
               ELSE IF b.exc \notin BaseExceptions
               THEN update_with_error(action_logs, call.action_log_id, b.msg, ok)
               ELSE action_logs
          /\ call' = [call EXCEPT !.pc = "done", !.invoked = @ + 1, !.outcome = b]
    /\ UNCHANGED <<middleware, probe, job_context_job_id, sink_result, request_log, job_logs, flow, job, current_request_id,
                   current_job_id, jobs_submitted, faults_left, obs, sink_calls,
                   last_status>>

\* The call is made with a request row and a job row in the store, with or
\* without the request id and the job id in the context.
InitDec ==
    /\ middleware = "logging_middleware"
    /\ faults_left = 0
    /\ request_log = <<NewRequestRow("c1")>>
    /\ job_logs = create_job_log(<<>>, request_log, "job1", None, "queued", TRUE).tbl
    /\ action_logs = <<>>
    /\ \E ambient \in {None, "c1"} :
         current_request_id = [t \in Tasks |-> IF t = 1 THEN ambient ELSE None]
    /\ \E ambient \in {None, "job1"} :
         current_job_id = [t \in Tasks |-> IF t = 1 THEN ambient ELSE None]
    /\ jobs_submitted = 0
    /\ flow = [f \in Flows |-> FlowInit]
    /\ job = [j \in Jobs |-> JobInit]
    /\ obs = [j \in Jobs |-> <<>>]
    /\ call = CallInit
    /\ sink_calls = 0
    /\ last_status = NoStatusResponse
    /\ job_context_job_id = [t \in Tasks |-> None]
    /\ sink_result = NoSinkResult
    /\ probe = NoProbe

NextDec == DecEnter \/ DecExit

SpecDec == InitDec /\ [][NextDec]_vars

\* What a caller of the sink sees: a key or nothing, true or false.
KeyOrAbsent(ret) == IF ret = 0 THEN "absent" ELSE "key"
TrueOrFalse(ret) == IF ret THEN "true" ELSE "false"
\* Ids a caller may pass: of rows that exist or may exist, or of none.
SinkRequestIds == {None, "c1", "unknown"}
SinkJobIds == {None, "unknown"} \cup {JobUuid(j) : j \in Jobs}
SinkFrame ==
    UNCHANGED <<middleware, probe, job_context_job_id, flow, job, current_request_id,
                current_job_id, jobs_submitted, faults_left, obs, call, last_status>>

\* Each operation is called with any arguments; ok says whether the
\* persistence step of the call works.
SinkCreateRequest ==
    /\ sink_calls < MaxSinkCalls
    /\ \E ok \in BOOLEAN :
         LET made == create_request_log(request_log, "c1", ok)
         IN /\ request_log' = made.tbl
            /\ sink_result' = [op |-> "create_request", ok |-> ok,
                               ret |-> KeyOrAbsent(made.ret)]
    /\ sink_calls' = sink_calls + 1
    /\ UNCHANGED <<job_logs, action_logs>>
    /\ SinkFrame

SinkUpdateRequest ==
    /\ sink_calls < MaxSinkCalls
    /\ \E ok \in BOOLEAN : \E request_id \in SinkRequestIds \ {None} :
       \E status_code \in {0, 200, 404, 500} : \E error_message \in {None, "", "boom"} :
         LET upd == update_request_log(request_log, request_id, status_code,
                                       error_message, error_message, ok)
         IN /\ request_log' = upd.tbl
            /\ sink_result' = [op |-> "finalize_request", ok |-> ok,
                               ret |-> TrueOrFalse(upd.ret),
                               request_id |-> request_id,
                               status_code |-> status_code,
                               error_message |-> error_message]
    /\ sink_calls' = sink_calls + 1
    /\ UNCHANGED <<job_logs, action_logs>>
    /\ SinkFrame

SinkCreateAction ==
    /\ sink_calls < MaxSinkCalls
    /\ \E ok \in BOOLEAN : \E request_id \in SinkRequestIds : \E job_id \in SinkJobIds :
         LET made == create_action_log(action_logs, request_log, job_logs, "action",
                                       request_id, job_id, ok)
             owned == \/ RowIndex(request_log, "request_id", request_id) # 0
                      \/ RowIndex(job_logs, "job_id", job_id) # 0
         IN /\ action_logs' = made.tbl
            /\ sink_result' = [op |-> IF owned THEN "create_action"
                                      ELSE "create_action_unowned",
                               ok |-> ok, ret |-> KeyOrAbsent(made.ret)]
    /\ sink_calls' = sink_calls + 1
    /\ UNCHANGED <<request_log, job_logs>>
    /\ SinkFrame

SinkUpdateAction ==
    /\ sink_calls < MaxSinkCalls
    /\ \E ok \in BOOLEAN : \E action_log_id \in 1 .. 2 :
       \E output_result \in {None, "v"} : \E error_message \in {None, "", "boom"} :
         LET upd == update_action_log(action_logs, action_log_id, output_result,
                                      error_message, ok)
         IN /\ action_logs' = upd.tbl
            /\ sink_result' = [op |-> "finalize_action", ok |-> ok,
                               ret |-> TrueOrFalse(upd.ret)]
    /\ sink_calls' = sink_calls + 1
    /\ UNCHANGED <<request_log, job_logs>>
    /\ SinkFrame

SinkCreateJob(j) ==
    /\ sink_calls < MaxSinkCalls
    /\ \E ok \in BOOLEAN : \E request_id \in SinkRequestIds :
         LET made == create_job_log(job_logs, request_log, JobUuid(j), request_id,
                                    "queued", ok)
         IN /\ job_logs' = made.tbl
            /\ sink_result' = [op |-> "create_job", ok |-> ok,
                               ret |-> KeyOrAbsent(made.ret)]
    /\ sink_calls' = sink_calls + 1
    /\ UNCHANGED <<request_log, action_logs>>
    /\ SinkFrame

SinkUpdateJob(j) ==
    /\ sink_calls < MaxSinkCalls
    /\ \E ok \in BOOLEAN : \E status \in JobStatusEnum \cup {None} :
       \E result_payload \in {None, "partial"} : \E error_message \in {None, "boom"} :
       \E mark_started, mark_finished \in BOOLEAN :
         LET upd == update_job_log(job_logs, JobUuid(j), status, result_payload,
                                   error_message, error_message, mark_started,
                                   mark_finished, ok)
         IN /\ job_logs' = upd.tbl
            /\ sink_result' = [op |-> "update_job", ok |-> ok,
                               ret |-> TrueOrFalse(upd.ret)]
    /\ sink_calls' = sink_calls + 1
    /\ UNCHANGED <<request_log, action_logs>>
    /\ SinkFrame

\* get_job_status on a job that exists.
SinkGetStatus(j) ==
    /\ RowIndex(job_logs, "job_id", JobUuid(j)) # 0
    /\ LET row == job_logs[RowIndex(job_logs, "job_id", JobUuid(j))]
           resp == JobStatusResponse(row)
       IN last_status' = [status |-> resp.status, result |-> resp.result,
                          error |-> resp.error, stored |-> row.result_payload]
    /\ UNCHANGED <<middleware, probe, job_context_job_id, sink_result, request_log, job_logs, action_logs, flow, job,
                   current_request_id, current_job_id, jobs_submitted,
                   faults_left, obs, call, sink_calls>>

InitSink ==
    /\ middleware = "logging_middleware"
    /\ faults_left = 0
    /\ InitStore
    /\ probe = NoProbe

NextSink ==
    \/ SinkCreateRequest
    \/ SinkUpdateRequest
    \/ SinkCreateAction
    \/ SinkUpdateAction
    \/ \E j \in Jobs : SinkCreateJob(j)
    \/ \E j \in Jobs : SinkUpdateJob(j)
    \/ \E j \in Jobs : SinkGetStatus(j)

SpecSink == InitSink /\ [][NextSink]_vars

\* ------------------------------------------------ sanitize_data, alone
\* Values handed to sanitize_data and the caps it is called with.
MaxItems == 2
Scalars ==
    {JNull, JBool(TRUE), JInt(0), JInt(12), JStr(<<>>), JStr(<<"a">>), JStr(<<"\"">>)}
ItemLists == UNION {[1 .. n -> Scalars] : n \in 0 .. MaxItems}
Keys == {<<"k">>, <<"j">>}
KeyLists == {ks \in UNION {[1 .. n -> Keys] : n \in 0 .. MaxItems} :
               \A a, b \in DOMAIN ks : a # b => ks[a] # ks[b]}
FlatDicts ==
    {JDict([n \in DOMAIN ks |-> <<ks[n], vs[n]>>]) :
       <<ks, vs>> \in {pr \in KeyLists \X ItemLists : Len(pr[1]) = Len(pr[2])}}
Nested ==
    {JList(<<JList(<<JInt(0), JStr(<<"a">>)>>), JNull>>),
     JList(<<JDict(<<<<<<"k">>, JStr(<<"\"">>)>>>>)>>),
     JDict(<<<<<<"k">>, JList(<<JNull, JInt(12)>>)>>, <<<<"j">>, JDict(<<>>)>>>>)}
SanitizeInputs == Scalars \cup {Unprintable} \cup {JList(l) : l \in ItemLists} \cup FlatDicts \cup Nested
MaxLengths == {2, 8, 11, 40}

SanitizeCall ==
    /\ probe.op = "sanitize_data"
    /\ ~probe.done
    /\ probe' = [probe EXCEPT !.done = TRUE,
                              !.out = sanitize_data_text(probe.data, probe.max_length)]
    /\ UNCHANGED <<middleware, request_log, job_logs, action_logs, flow, job,
                   current_request_id, current_job_id, jobs_submitted,
                   faults_left, obs, call, sink_calls, last_status,
                   job_context_job_id, sink_result>>

InitSanitize ==
    /\ middleware = "request_logging"
    /\ faults_left = 0
    /\ InitStore
    /\ probe \in {[op |-> "sanitize_data", data |-> d, max_length |-> m,
                    done |-> FALSE, out |-> <<>>] :
                     d \in SanitizeInputs, m \in MaxLengths}
NextSanitize == SanitizeCall
SpecSanitize == InitSanitize /\ [][NextSanitize]_vars

\* ------------------------------------------- the headers of a RequestLog row
UpperCase == <<"A", "B", "C", "D", "E", "F", "G", "H", "I", "J", "K", "L", "M", "N", "O", "P", "Q", "R", "S", "T", "U", "V", "W", "X", "Y", "Z">>
LowerCase == <<"a", "b", "c", "d", "e", "f", "g", "h", "i", "j", "k", "l", "m", "n", "o", "p", "q", "r", "s", "t", "u", "v", "w", "x", "y", "z">>
\* str.lower()
Lower(chars) ==
    [i \in DOMAIN chars |->
       IF \E k \in 1 .. 26 : UpperCase[k] = chars[i]
       THEN LowerCase[CHOOSE k \in 1 .. 26 : UpperCase[k] = chars[i]]
       ELSE chars[i]]

\* request_logging.SENSITIVE_HEADERS
SENSITIVE_HEADERS ==
    {<<"a", "u", "t", "h", "o", "r", "i", "z", "a", "t", "i", "o", "n">>,
     <<"c", "o", "o", "k", "i", "e">>,
     <<"s", "e", "t", "-", "c", "o", "o", "k", "i", "e">>}
Redacted == <<"<", "r", "e", "d", "a", "c", "t", "e", "d", ">">>

\* request_logging._scrub_headers
_scrub_headers(h) ==
    JDict([i \in DOMAIN h.pairs |->
             <<h.pairs[i][1],
               IF Lower(h.pairs[i][1]) \in SENSITIVE_HEADERS
               THEN JStr(Redacted) ELSE h.pairs[i][2]>>])

\* The default max_length of sanitize_data.
DefaultMaxLength == 500000

\* Header names and values of a request (a header dict in any spelling).
HeaderNames ==
    {<<"a", "u", "t", "h", "o", "r", "i", "z", "a", "t", "i", "o", "n">>,
     <<"A", "u", "t", "h", "o", "r", "i", "z", "a", "t", "i", "o", "n">>,
     <<"c", "o", "o", "k", "i", "e">>,
     <<"S", "E", "T", "-", "C", "O", "O", "K", "I", "E">>,
     <<"a", "c", "c", "e", "p", "t">>}
HeaderValues == {<<"s", "3", "c", "r", "3", "t">>, <<"*", "/", "*">>}
MaxHeaders == 2
HeaderDicts ==
    {JDict([i \in DOMAIN ns |-> <<ns[i], JStr(vs[i])>>]) :
       <<ns, vs>> \in {pr \in (UNION {[1 .. n -> HeaderNames] : n \in 0 .. MaxHeaders})
                               \X (UNION {[1 .. n -> HeaderValues] : n \in 0 .. MaxHeaders}) :
                         /\ Len(pr[1]) = Len(pr[2])
                         /\ \A a, b \in DOMAIN pr[1] : a # b => pr[1][a] # pr[1][b]}}

\* What dispatch stores in the headers column of the row it creates:
\* logging_middleware stores json.dumps(dict(request.headers));
\* request_logging scrubs the dict and hands it (None when empty) to
\* create_request_log, which stores sanitize_data of it.
StoreHeaders ==
    /\ probe.op = "headers"
    /\ ~probe.done
    /\ probe' = [probe EXCEPT !.done = TRUE,
                    !.out = IF middleware = "logging_middleware"
                            THEN json_dumps(probe.data)
                            ELSE LET headers == _scrub_headers(probe.data)
                                 IN sanitize_data_text(
                                      IF headers.pairs = <<>> THEN JNull ELSE headers,
                                      DefaultMaxLength)]
    /\ UNCHANGED <<middleware, request_log, job_logs, action_logs, flow, job,
                   current_request_id, current_job_id, jobs_submitted,
                   faults_left, obs, call, sink_calls, last_status,
                   job_context_job_id, sink_result>>

InitHeaders ==
    /\ middleware \in {"logging_middleware", "request_logging"}
    /\ faults_left = 0
    /\ InitStore
    /\ probe \in {[op |-> "headers", data |-> h, done |-> FALSE, out |-> <<>>] :
                     h \in HeaderDicts}
NextHeaders == StoreHeaders
SpecHeaders == InitHeaders /\ [][NextHeaders]_vars

\* --------------------------------------------------- _find_request_id, alone
\* Arguments that carry different request ids, so that the source of the id
\* found can be told.
MaxFindArgs == 2
MaxBodyLen == 2
MaxAwsTasks == 3
MaxAwsCalls == 4
FindArgObjects ==
    {[kind |-> "request", rid |-> r] : r \in {"r1", "r2", None}}
      \cup {[kind |-> "plain", rid |-> None], [kind |-> "falsy", rid |-> None]}
FindArgLists == UNION {[1 .. n -> FindArgObjects] : n \in 0 .. MaxFindArgs}

FindCall ==
    /\ probe.op = "_find_request_id"
    /\ ~probe.done
    /\ probe' = [probe EXCEPT !.done = TRUE,
                    !.out = _find_request_id(probe.args, probe.kw_request,
                                             get_request_id(1))]
    /\ UNCHANGED <<middleware, request_log, job_logs, action_logs, flow, job,
                   current_request_id, current_job_id, jobs_submitted,
                   faults_left, obs, call, sink_calls, last_status,
                   job_context_job_id, sink_result>>

InitFind ==
    /\ middleware = "logging_middleware"
    /\ faults_left = 0
    /\ request_log = <<>>
    /\ job_logs = <<>>
    /\ action_logs = <<>>
    /\ \E ambient \in {None, "ambient"} :
         current_request_id = [t \in Tasks |-> IF t = 1 THEN ambient ELSE None]
    /\ current_job_id = [t \in Tasks |-> None]
    /\ jobs_submitted = 0
    /\ flow = [f \in Flows |-> FlowInit]
    /\ job = [j \in Jobs |-> JobInit]
    /\ obs = [j \in Jobs |-> <<>>]
    /\ call = CallInit
    /\ sink_calls = 0
    /\ last_status = NoStatusResponse
    /\ job_context_job_id = [t \in Tasks |-> None]
    /\ sink_result = NoSinkResult
    /\ probe \in {[op |-> "_find_request_id", args |-> a, kw_request |-> k,
                    done |-> FALSE, out |-> None] :
                     a \in FindArgLists, k \in FindArgObjects}
NextFind == FindCall
SpecFind == InitFind /\ [][NextFind]_vars

\* ------------------------------------------------------------- request body
\* The transport delivers the body as "http.request" messages of bytes, the
\* last one with more_body false.  Bytes are written "x61"; the text they
\* stand for is written in characters, "a".  "xff" is a byte that no UTF-8
\* text holds.
BodyBytes == {"x61", "x62", "xff"}
ReplacementChar == "<U+FFFD>"
ByteChar(b) == IF b = "x61" THEN "a" ELSE IF b = "x62" THEN "b" ELSE ReplacementChar
Binary == <<"<", "b", "i", "n", "a", "r", "y", ">">>
IsUtf8(bytes) == \A i \in 1 .. Len(bytes) : bytes[i] # "xff"

\* await request.body(): the bodies of the messages of a stream, joined.
RECURSIVE request_body(_)
request_body(messages) ==
    IF messages = <<>> THEN <<>>
    ELSE Head(messages).body \o request_body(Tail(messages))

\* A receive() that hands out nothing of what was read.
ReceiveEmpty(body_bytes) == [type |-> "http.request", body |-> <<>>, more_body |-> FALSE]

\* receive(): the one message the replaced stream gives, holding the
\* buffered bytes and ending the body.
receive(body_bytes) == [type |-> "http.request", body |-> body_bytes, more_body |-> FALSE]

\* body_bytes.decode("utf-8"), "<binary>" when that raises
\* (logging_middleware); body_bytes.decode(errors="replace") of a non-empty
\* body, None (NoText) of an empty one (request_logging).
decode_utf8(body_bytes) ==
    IF IsUtf8(body_bytes) THEN [i \in 1 .. Len(body_bytes) |-> ByteChar(body_bytes[i])]
    ELSE Binary
decode_replace(body_bytes) ==
    IF body_bytes = <<>> THEN NoText
    ELSE [i \in 1 .. Len(body_bytes) |-> ByteChar(body_bytes[i])]

\* The body column of the row: logging_middleware stores body_text as it is;
\* request_logging hands it to create_request_log, which stores
\* sanitize_data(body).
StoredBody(mw, body_bytes) ==
    IF mw = "logging_middleware" THEN decode_utf8(body_bytes)
    ELSE IF decode_replace(body_bytes) = NoText THEN NoText
    ELSE sanitize_data_text(JStr(decode_replace(body_bytes)), DefaultMaxLength)

SmallBodies == UNION {[1 .. n -> BodyBytes] : n \in 0 .. MaxBodyLen}
LargeBody == [i \in 1 .. (DefaultMaxLength + 1) |-> "x61"]
BodyStreams ==
    {<<[type |-> "http.request", body |-> b, more_body |-> FALSE]>> : b \in SmallBodies \cup {LargeBody}}
    \cup {<<[type |-> "http.request", body |-> b1, more_body |-> TRUE],
            [type |-> "http.request", body |-> b2, more_body |-> FALSE]>> :
              b1 \in SmallBodies, b2 \in SmallBodies}

\* The interceptor reads the body, replaces the stream and stores the text;
\* the handler then reads its body from the replaced stream.
BufferBody ==
    /\ probe.op = "body"
    /\ ~probe.done
    /\ \E body_bytes \in {request_body(probe.transport)} :
         probe' = [probe EXCEPT !.done = TRUE,
                                !.transport = <<>>,
                                !.body_bytes = body_bytes,
                                !.stream = <<receive(body_bytes)>>,
                                !.stored = StoredBody(middleware, body_bytes),
                                !.downstream = request_body(<<receive(body_bytes)>>)]
    /\ UNCHANGED <<middleware, request_log, job_logs, action_logs, flow, job,
                   current_request_id, current_job_id, jobs_submitted,
                   faults_left, obs, call, sink_calls, last_status,
                   job_context_job_id, sink_result>>

InitBody ==
    /\ middleware \in {"logging_middleware", "request_logging"}
    /\ faults_left = 0
    /\ request_log = <<>>
    /\ job_logs = <<>>
    /\ action_logs = <<>>
    /\ current_request_id = [t \in Tasks |-> None]
    /\ current_job_id = [t \in Tasks |-> None]
    /\ jobs_submitted = 0
    /\ flow = [f \in Flows |-> FlowInit]
    /\ job = [j \in Jobs |-> JobInit]
    /\ obs = [j \in Jobs |-> <<>>]
    /\ call = CallInit
    /\ sink_calls = 0
    /\ last_status = NoStatusResponse
    /\ job_context_job_id = [t \in Tasks |-> None]
    /\ sink_result = NoSinkResult
    /\ probe \in {[op |-> "body", sent |-> request_body(m), transport |-> m,
                    done |-> FALSE, body_bytes |-> <<>>, stream |-> <<>>,
                    stored |-> NoText, downstream |-> <<>>] : m \in BodyStreams}
NextBody == BufferBody
SpecBody == InitBody /\ [][NextBody]_vars

\* ------------------------------------------------------------- AWSInference
\* The class-level singleton state (_instance, the two locks), the fields of
\* every instance made, and the coroutines calling get_instance and shutdown
\* on one event loop: a coroutine runs without interruption from one
\* suspension (a contended lock, __aenter__, __aexit__) to the next.
AwsTasks == 1 .. MaxAwsTasks
AwsInstances == 1 .. MaxAwsCalls
NewInstance == [client |-> FALSE, client_ctx |-> FALSE, is_initialized |-> FALSE]
AwsIdle == [pc |-> "idle", kind |-> "none", self |-> 0]
NoReturn == [kind |-> "none", id |-> 0, ready |-> FALSE]

\* return cls._instance: the class attribute as it is when the coroutine
\* returns; id 0 is None.
ReturnInstance(p, t) ==
    [p EXCEPT !.task[t] = AwsIdle,
              !.ret[t] = [kind |-> "get_instance", id |-> p.instance,
                          ready |-> IF p.instance = 0 THEN FALSE
                                    ELSE p.inst[p.instance].is_initialized]]

\* self._ensure_initialized() up to its first suspension: nothing to do on
\* an initialized instance; otherwise take _initialization_lock (or wait for
\* it), build the client context and await its __aenter__.
EnterInitialization(p, t, self) ==
    IF p.inst[self].is_initialized THEN ReturnInstance(p, t)
    ELSE [p EXCEPT !.initialization_lock = t,
                   !.inst[self].client_ctx = TRUE,
                   !.task[t] = [pc |-> "aenter", kind |-> "get_instance", self |-> self]]
_ensure_initialized(p, t, self) ==
    IF p.inst[self].is_initialized THEN ReturnInstance(p, t)
    ELSE IF p.initialization_lock # 0
         THEN [p EXCEPT !.task[t] = [pc |-> "wait_initialization_lock",
                                     kind |-> "get_instance", self |-> self]]
         ELSE EnterInitialization(p, t, self)

\* The body of get_instance under _instance_lock and after it: make the
\* instance when there is none, then initialize cls._instance.
CreateAndInitialize(p, t) ==
    IF p.instance # 0 THEN _ensure_initialized(p, t, p.instance)
    ELSE _ensure_initialized(
             [p EXCEPT !.instance = p.made + 1,
                       !.made = p.made + 1,
                       !.made_since_shutdown = p.made_since_shutdown + 1,
                       !.inst[p.made + 1] = NewInstance],
             t, p.made + 1)

\* The body of shutdown under _instance_lock up to its suspension: close
\* the client of the instance when it has one, then forget the instance.
ShutdownLocked(p, t) ==
    IF p.instance = 0
    THEN [p EXCEPT !.task[t] = AwsIdle,
                   !.ret[t] = [kind |-> "shutdown", id |-> 0, ready |-> FALSE]]
    ELSE IF p.inst[p.instance].client /\ p.inst[p.instance].client_ctx
         THEN [p EXCEPT !.instance_lock = t,
                        !.task[t] = [pc |-> "aexit", kind |-> "shutdown",
                                     self |-> p.instance]]
         ELSE [p EXCEPT !.instance = 0,
                        !.made_since_shutdown = 0,
                        !.task[t] = AwsIdle,
                        !.ret[t] = [kind |-> "shutdown", id |-> 0, ready |-> FALSE]]

AwsFrame ==
    UNCHANGED <<middleware, request_log, job_logs, action_logs, flow, job,
                current_request_id, current_job_id, jobs_submitted,
                faults_left, obs, call, sink_calls, last_status,
                job_context_job_id, sink_result>>

\* await AWSInference.get_instance(), to its first suspension or its return.
get_instance(t) ==
    /\ probe.op = "aws"
    /\ probe.task[t].pc = "idle"
    /\ probe.calls < MaxAwsCalls
    /\ \E p \in {[probe EXCEPT !.calls = probe.calls + 1, !.ret[t] = NoReturn]} :
         probe' = IF p.instance # 0 THEN _ensure_initialized(p, t, p.instance)
                  ELSE IF p.instance_lock # 0
                       THEN [p EXCEPT !.task[t] = [pc |-> "wait_instance_lock",
                                                   kind |-> "get_instance", self |-> 0]]
                       ELSE CreateAndInitialize(p, t)
    /\ AwsFrame

\* await AWSInference.shutdown(), to its first suspension or its return.
shutdown(t) ==
    /\ probe.op = "aws"
    /\ probe.task[t].pc = "idle"
    /\ probe.calls < MaxAwsCalls
    /\ \E p \in {[probe EXCEPT !.calls = probe.calls + 1, !.ret[t] = NoReturn]} :
         probe' = IF p.instance_lock # 0
                  THEN [p EXCEPT !.task[t] = [pc |-> "wait_instance_lock",
                                              kind |-> "shutdown", self |-> 0]]
                  ELSE ShutdownLocked(p, t)
    /\ AwsFrame

\* A coroutine waiting for _instance_lock gets it.
InstanceLockAcquired(t) ==
    /\ probe.op = "aws"
    /\ probe.task[t].pc = "wait_instance_lock"
    /\ probe.instance_lock = 0
    /\ probe' = IF probe.task[t].kind = "shutdown" THEN ShutdownLocked(probe, t)
                ELSE CreateAndInitialize(probe, t)
    /\ AwsFrame

\* A coroutine waiting for _initialization_lock gets it and looks at
\* self._is_initialized again.
InitializationLockAcquired(t) ==
    /\ probe.op = "aws"
    /\ probe.task[t].pc = "wait_initialization_lock"
    /\ probe.initialization_lock = 0
    /\ probe' = EnterInitialization(probe, t, probe.task[t].self)
    /\ AwsFrame

\* self._client_ctx.__aenter__() ends: with the client, and get_instance
\* returns; or with an exception, and get_instance raises RuntimeError.
AenterDone(t) ==
    /\ probe.op = "aws"
    /\ probe.task[t].pc = "aenter"
    /\ \E ok \in BOOLEAN :
         probe' =
           IF ok
           THEN ReturnInstance(
                    [probe EXCEPT !.inst[probe.task[t].self].client = TRUE,
                                  !.inst[probe.task[t].self].is_initialized = TRUE,
                                  !.initialization_lock = 0], t)
           ELSE [probe EXCEPT !.initialization_lock = 0,
                              !.task[t] = AwsIdle,
                              !.ret[t] = [kind |-> "RuntimeError", id |-> 0, ready |-> FALSE]]
    /\ AwsFrame

\* instance._client_ctx.__aexit__() ends: the fields are cleared unless it
\* raised; the instance is forgotten and the lock released either way.
AexitDone(t) ==
    /\ probe.op = "aws"
    /\ probe.task[t].pc = "aexit"
    /\ \E ok \in BOOLEAN :
         probe' = [probe EXCEPT
                     !.inst[probe.task[t].self] = IF ok THEN NewInstance ELSE @,
                     !.instance = 0,
                     !.made_since_shutdown = 0,
                     !.instance_lock = 0,
                     !.task[t] = AwsIdle,
                     !.ret[t] = [kind |-> "shutdown", id |-> 0, ready |-> FALSE]]
    /\ AwsFrame

InitAws ==
    /\ middleware = "logging_middleware"
    /\ faults_left = 0
    /\ request_log = <<>>
    /\ job_logs = <<>>
    /\ action_logs = <<>>
    /\ current_request_id = [t \in Tasks |-> None]
    /\ current_job_id = [t \in Tasks |-> None]
    /\ jobs_submitted = 0
    /\ flow = [f \in Flows |-> FlowInit]
    /\ job = [j \in Jobs |-> JobInit]
    /\ obs = [j \in Jobs |-> <<>>]
    /\ call = CallInit
    /\ sink_calls = 0
    /\ last_status = NoStatusResponse
    /\ job_context_job_id = [t \in Tasks |-> None]
    /\ sink_result = NoSinkResult
    /\ probe = [op |-> "aws", instance |-> 0, made |-> 0, made_since_shutdown |-> 0,
                inst |-> [i \in AwsInstances |-> NewInstance],
                instance_lock |-> 0, initialization_lock |-> 0, calls |-> 0,
                task |-> [t \in AwsTasks |-> AwsIdle],
                ret |-> [t \in AwsTasks |-> NoReturn]]
NextAws ==
    \E t \in AwsTasks :
       \/ get_instance(t)
       \/ shutdown(t)
       \/ InstanceLockAcquired(t)
       \/ InitializationLockAcquired(t)
       \/ AenterDone(t)
       \/ AexitDone(t)
SpecAws == InitAws /\ [][NextAws]_vars

\* ------------------------------------------------------------ _with_retries
\* What one call of the wrapped function ends with: a value, or an exception
\* given by its class and, for a ClientError, its error code.
RETRY_ATTEMPTS == 3
ThrottlingCodes == {"ThrottlingException", "TooManyRequestsException",
                    "ProvisionedThroughputExceededException"}
NetworkErrors == {"ReadTimeoutError", "EndpointConnectionError", "ConnectionClosedError"}
Returned == [exc |-> "none", code |-> ""]
FnOutcomes ==
    {Returned}
    \cup {[exc |-> "ClientError", code |-> c] :
             c \in ThrottlingCodes \cup {"ValidationException", ""}}
    \cup {[exc |-> e, code |-> ""] :
             e \in NetworkErrors \cup {"CancelledError", "ValueError"}}

\* Every error code taken for a throttling code.
AnyCode(code) == TRUE

\* code in {"ThrottlingException", ...}
IsThrottling(code) == code \in ThrottlingCodes

\* The except clauses of the loop: "raise" re-raises the exception, "retry"
\* falls through to the backoff.
OnError(e, attempt) ==
    IF e.exc = "CancelledError" THEN "raise"
    ELSE IF e.exc = "ClientError"
         THEN IF IsThrottling(e.code)
              THEN IF attempt >= RETRY_ATTEMPTS - 1 THEN "raise" ELSE "retry"
              ELSE "raise"
    ELSE IF e.exc \in NetworkErrors
         THEN IF attempt >= RETRY_ATTEMPTS - 1 THEN "raise" ELSE "retry"
    ELSE "raise"

RetryFrame ==
    UNCHANGED <<middleware, request_log, job_logs, action_logs, flow, job,
                current_request_id, current_job_id, jobs_submitted,
                faults_left, obs, call, sink_calls, last_status,
                job_context_job_id, sink_result>>

\* One pass of the loop body: await fn(...), then return its value, re-raise
\* its exception or go on to the backoff.
RetryCall ==
    /\ probe.op = "_with_retries"
    /\ probe.pc = "call"
    /\ \E e \in FnOutcomes :
         probe' = [probe EXCEPT
                     !.calls = probe.calls + 1,
                     !.seen = Append(probe.seen, e),
                     !.pc = IF e = Returned THEN "done"
                            ELSE IF OnError(e, probe.attempt) = "raise" THEN "done"
                            ELSE "sleep",
                     !.out = IF e = Returned THEN e
                             ELSE IF OnError(e, probe.attempt) = "raise" THEN e
                             ELSE probe.out]
    /\ RetryFrame

\* await asyncio.sleep(delay + jitter), then attempt += 1; a cancellation
\* delivered during the sleep propagates.
RetrySleep ==
    /\ probe.op = "_with_retries"
    /\ probe.pc = "sleep"
    /\ \E cancelled \in BOOLEAN :
         probe' = IF cancelled
                  THEN [probe EXCEPT !.pc = "done",
                                     !.out = [exc |-> "CancelledError", code |-> ""]]
                  ELSE [probe EXCEPT !.pc = "call", !.attempt = probe.attempt + 1]
    /\ RetryFrame

InitRetry ==
    /\ middleware = "logging_middleware"
    /\ faults_left = 0
    /\ request_log = <<>>
    /\ job_logs = <<>>
    /\ action_logs = <<>>
    /\ current_request_id = [t \in Tasks |-> None]
    /\ current_job_id = [t \in Tasks |-> None]
    /\ jobs_submitted = 0
    /\ flow = [f \in Flows |-> FlowInit]
    /\ job = [j \in Jobs |-> JobInit]
    /\ obs = [j \in Jobs |-> <<>>]
    /\ call = CallInit
    /\ sink_calls = 0
    /\ last_status = NoStatusResponse
    /\ job_context_job_id = [t \in Tasks |-> None]
    /\ sink_result = NoSinkResult
    /\ probe = [op |-> "_with_retries", pc |-> "call", attempt |-> 0, calls |-> 0,
                seen |-> <<>>, out |-> [exc |-> "pending", code |-> ""]]
NextRetry == RetryCall \/ RetrySleep
\* The event loop runs the coroutine on: the awaited call ends and the sleep
\* ends.
SpecRetry == InitRetry /\ [][NextRetry]_vars /\ WF_vars(NextRetry)

\* ================================================================ properties
Dispatching == {"read_body", "create", "handler", "respond"}
WellFormed(h) == Truthy(h) /\ UuidParses(h)
Rank(status) ==
    IF status = "queued" THEN 1 ELSE IF status = "running" THEN 2 ELSE 3
JobRow(j) == job_logs[RowIndex(job_logs, "job_id", JobUuid(j))]
JobStored(j) == RowIndex(job_logs, "job_id", JobUuid(j)) # 0
JobSucceeded(j) ==
    /\ JobStored(j)
    /\ JobRow(j).status = "succeeded"
    /\ JobRow(j).result_payload # None

\* C1: a call of a decorated function ends as the call of the undecorated
\* function would: the same value returned or the same exception raised,
\* whatever the arguments and whatever the sink does.
C1_SameOutcome ==
    call.pc = "done" => call.outcome = call.behaviour

\* C2: when a dispatch has ended, on any path, the request-id context of
\* its task holds what it held before the dispatch (nothing).
C2_ContextRestored ==
    \A f \in Flows : flow[f].pc = "done" => get_request_id(f) = None

\* C3: a request that has left the middleware has had exactly one row
\* created and that row finalized exactly once.
C3_OneCreateOneFinalize ==
    \A f \in Flows :
      flow[f].pc = "done" =>
        /\ flow[f].created = 1
        /\ flow[f].row \in 1 .. Len(request_log)
        /\ request_log[flow[f].row].finalized = 1

\* C4: while flows interleave, each flow reads from the context the ids it
\* set itself: a request its own request id, a background job its own
\* request id and job id.
C4_ContextIsolated ==
    /\ \A f \in Flows :
         flow[f].pc \in Dispatching => get_request_id(f) = flow[f].request_uuid
    /\ \A j \in Jobs :
         job[j].pc \in {"working", "finishing"} =>
           /\ get_request_id(BgTask(j)) = job[j].request_id
           /\ CtxGet(current_job_id, BgTask(j)) = job[j].job_id

C4_Witness ==
    \E f, g \in Flows :
      /\ f # g
      /\ flow[f].pc = "handler" /\ flow[g].pc = "handler"
      /\ flow[f].request_uuid # flow[g].request_uuid
      /\ get_request_id(f) = flow[f].request_uuid
      /\ get_request_id(g) = flow[g].request_uuid

\* C5 as stated: a well-formed X-Request-ID no row uses is adopted
\* verbatim; otherwise a fresh id is minted and the request goes on.
C5_AdoptedVerbatim ==
    \A f \in Flows :
      (middleware = "logging_middleware" /\ flow[f].pc = "read_body") =>
        IF WellFormed(flow[f].header) /\ ~flow[f].in_use
        THEN flow[f].request_uuid = flow[f].header
        ELSE flow[f].request_uuid = Uuid4(f)

\* C5 amended: a well-formed X-Request-ID whose canonical form no row uses
\* is adopted in that canonical form, which is the supplied text when the
\* text is canonical already; otherwise a fresh id, used by no row, is
\* minted and the request goes on.
C5_AdoptedCanonical ==
    \A f \in Flows :
      (middleware = "logging_middleware" /\ flow[f].pc = "read_body") =>
        IF WellFormed(flow[f].header) /\ ~flow[f].in_use
        THEN /\ flow[f].request_uuid = UuidStr(flow[f].header)
             /\ (flow[f].header = UuidStr(flow[f].header)
                   => flow[f].request_uuid = flow[f].header)
        ELSE /\ flow[f].request_uuid = Uuid4(f)
             /\ RowIndex(request_log, "request_id", flow[f].request_uuid) = 0

C5_Witness ==
    \E f, g \in Flows :
      /\ middleware = "logging_middleware"
      /\ flow[f].pc = "read_body" /\ flow[f].header = "C1"
      /\ ~flow[f].in_use /\ flow[f].request_uuid = "c1"
      /\ flow[g].pc = "read_body" /\ flow[g].header = "c1"
      /\ flow[g].in_use /\ flow[g].request_uuid = Uuid4(g)

\* C6: the statuses successive get_status calls return for one job only
\* move forward along queued, running, terminal: nothing follows a terminal
\* status, and queued never follows running.
C6_ObservedMonotone ==
    \A j \in Jobs :
      \A i, k \in 1 .. Len(obs[j]) :
        i < k => Rank(obs[j][i]) < Rank(obs[j][k])

C6_Witness ==
    \E j \in Jobs : \E f \in Flows :
      /\ Len(obs[j]) = 2
      /\ obs[j][1] = "queued"
      /\ obs[j][2] \in TerminalStatuses
      /\ flow[f].q_job = j /\ flow[f].q_status = obs[j][2]

\* C7: whatever update_job calls are made, the stored status of a job never
\* moves back: a terminal status stays, and queued never follows running.
C7_StoredMonotone ==
    [][\A i \in 1 .. Len(job_logs) :
         /\ Rank(job_logs'[i].status) >= Rank(job_logs[i].status)
         /\ (job_logs[i].status \in TerminalStatuses
               => job_logs'[i].status = job_logs[i].status)]_vars

\* C8: get_status returns a result only with the status succeeded; with any
\* other status the result is absent, whatever payload the row stores.
C8_ResultOnlyWhenSucceeded ==
    last_status.status # "succeeded" => last_status.result = None

C8_Witness ==
    /\ last_status.status \in JobStatusEnum \ {"succeeded"}
    /\ last_status.stored # None
    /\ last_status.result = None

\* C9: submit returns the id of a job whose row is in the store, created
\* queued and linked to the row of the submitting request, before any of
\* the job's work has run; the response is sent while the work is still to
\* start.
C9_Stored ==
    \A j \in Jobs :
      job[j].pc # "none" =>
        /\ JobStored(j)
        /\ (job[j].pc = "scheduled" =>
              JobRow(j).status = "queued" /\ JobRow(j).result_payload = None)
        /\ (Truthy(job[j].request_id) =>
              /\ JobRow(j).request_log_id = flow[job[j].flow].row
              /\ JobRow(j).request_log_id \in 1 .. Len(request_log)
              /\ request_log[JobRow(j).request_log_id].request_id = job[j].request_id)

C9_Returns ==
    \A f \in Flows :
      (flow[f].pc = "handler" /\ jobs_submitted' = jobs_submitted + 1) =>
        /\ flow'[f].pc \in {"handler", "respond"}
        /\ (flow'[f].pc = "respond" =>
              /\ flow'[f].status = 200
              /\ job'[jobs_submitted'].flow = f
              /\ job'[jobs_submitted'].pc = "scheduled")

C9_SubmitQueuedLinked == []C9_Stored /\ [][C9_Returns]_vars

C9_Witness ==
    \E j \in Jobs :
      /\ job[j].pc = "scheduled"
      /\ flow[job[j].flow].pc = "done"
      /\ flow[job[j].flow].outcome = "response"
      /\ JobStored(j)
      /\ JobRow(j).status = "queued"
      /\ JobRow(j).request_log_id = flow[job[j].flow].row
      /\ JobRow(j).request_log_id # 0

\* C10: with the job's steps scheduled fairly, a submitted job whose work
\* does not raise comes to be stored succeeded with its result; a status
\* query answered before then returns queued or running with no result, and
\* one answered after returns succeeded with the result.
C10_Responses ==
    \A f \in Flows :
      (flow[f].pc = "respond" /\ flow[f].q_job # 0) =>
        \/ /\ flow[f].q_status = "succeeded"
           /\ flow[f].q_result # None
           /\ JobSucceeded(flow[f].q_job)
        \/ /\ flow[f].q_status \in {"queued", "running"}
           /\ flow[f].q_result = None
        \/ /\ job[flow[f].q_job].raised
           /\ flow[f].q_result = None

C10_EventuallySucceeded ==
    /\ []C10_Responses
    /\ \A j \in Jobs :
         (job[j].pc = "scheduled") ~> (job[j].raised \/ JobSucceeded(j))

C10_Witness ==
    \E j \in Jobs : \E f \in Flows :
      /\ ~job[j].raised
      /\ obs[j] = <<"queued", "succeeded">>
      /\ flow[f].pc = "respond" /\ flow[f].q_job = j
      /\ flow[f].q_status = "succeeded" /\ flow[f].q_result # None

\* C11: when the work of a job raises, the job row ends with status failed,
\* the message of the exception and a traceback, and the runner returns
\* instead of raising.
C11_FailureRecorded ==
    \A j \in Jobs :
      (job[j].pc = "done" /\ job[j].raised) =>
        /\ JobStored(j)
        /\ JobRow(j).status = "failed"
        /\ JobRow(j).error_message = job[j].exc_msg
        /\ JobRow(j).error_traceback # None
        /\ job[j].outcome = "returned"

\* C12: when the runner has finished a job, after success or failure, the
\* context of the task that ran it holds what it held before the runner
\* set it: the request id inherited from the submitting request and no job
\* id; no request task ever sees a job id.
C12_JobContextRestored ==
    /\ \A j \in Jobs :
         job[j].pc = "done" =>
           /\ get_request_id(BgTask(j)) = job[j].request_id
           /\ CtxGet(current_job_id, BgTask(j)) = None
    /\ \A f \in Flows : CtxGet(current_job_id, f) = None

C12_Witness ==
    \E j \in Jobs :
      /\ job[j].pc = "done" /\ job[j].raised
      /\ get_request_id(BgTask(j)) # None
      /\ CtxGet(current_job_id, BgTask(j)) = None

\* The decorated call has passed its id resolution.
DecEntered == call.pc = "running" \/ (call.pc = "done" /\ call.invoked > 0)
DecRow == action_logs[call.action_log_id]
\* The job id of the call: the job_id keyword argument, else the job id a
\* runner has set in the context.
DecJobId == IF Truthy(call.kw_job_id) THEN call.kw_job_id ELSE CtxGet(current_job_id, 1)

\* C13: no exception of the decorator's own steps (id resolution, parameter
\* capture, create, finalize) leaves the wrapper, and the wrapped function
\* is invoked exactly once.
C13_InvokedOnce ==
    call.pc = "done" =>
      /\ call.invoked = 1
      /\ call.outcome # TruthTestError

\* C14: when the wrapped function raises E under a request context and an
\* action key was obtained, the action row has the error flag set and the
\* message of E.
C14_ErrorRecorded ==
    (/\ call.pc = "done"
     /\ call.behaviour.kind = "raise"
     /\ call.outcome = call.behaviour
     /\ call.action_log_id # 0) =>
       /\ DecRow.is_error = 1
       /\ DecRow.error_message = call.behaviour.msg

\* C15: a call for which neither a request id nor a job id resolves still
\* invokes the function and yields its outcome, and no action row is
\* created or updated.
C15_NoIdNoRow ==
    (DecEntered /\ ~Truthy(call.resolved) /\ ~Truthy(DecJobId)) =>
      /\ call.action_log_id = 0
      /\ action_logs = <<>>
      /\ (call.pc = "done" => call.invoked = 1 /\ call.outcome = call.behaviour)

C15_Witness ==
    /\ call.pc = "done"
    /\ ~Truthy(call.resolved) /\ ~Truthy(DecJobId)
    /\ call.sink = "ok"
    /\ call.kw_request.kind = "request"
    /\ call.invoked = 1
    /\ call.outcome.kind = "raise"
    /\ action_logs = <<>>

\* C17: the action rows of decorated calls made within a request carry that
\* request's id; those of calls made within a job that has no enclosing
\* request are created and carry the job id only.
C17_NestedShareIds ==
    (DecEntered /\ call.sink = "ok") =>
      /\ Truthy(call.resolved) =>
           /\ call.action_log_id # 0
           /\ DecRow.request_id = RowIndex(request_log, "request_id", call.resolved)
      /\ (~Truthy(call.resolved) /\ Truthy(CtxGet(current_job_id, 1))) =>
           /\ call.action_log_id # 0
           /\ DecRow.request_id = 0
           /\ DecRow.job_log_id = RowIndex(job_logs, "job_id", CtxGet(current_job_id, 1))

\* C18: the job id of a decorated call is resolved on its own, the job_id
\* keyword argument before the context, and the action row is linked to
\* that job, and to the request as well when one is resolved.
C18_JobLinked ==
    (DecEntered /\ call.sink = "ok" /\ Truthy(DecJobId)) =>
      /\ call.action_log_id # 0
      /\ DecRow.job_log_id = RowIndex(job_logs, "job_id", DecJobId)
      /\ (Truthy(call.resolved) =>
            DecRow.request_id = RowIndex(request_log, "request_id", call.resolved))

\* C16: every stored action row is linked to a request row or to a job row
\* that exists, and a create_action_log call whose ids find neither owner
\* returns no key and writes nothing.
C16_OwnerLink ==
    /\ [](\A i \in 1 .. Len(action_logs) :
            /\ action_logs[i].request_id \in 0 .. Len(request_log)
            /\ action_logs[i].job_log_id \in 0 .. Len(job_logs)
            /\ action_logs[i].request_id # 0 \/ action_logs[i].job_log_id # 0)
    /\ [][(sink_calls' = sink_calls + 1 /\ sink_result'.op = "create_action_unowned")
            => (action_logs' = action_logs /\ sink_result'.ret = "absent")]_vars

\* A call with unknown ids, its persistence working, was skipped while an
\* owned row is stored.
C16_Witness ==
    /\ sink_result.op = "create_action_unowned"
    /\ sink_result.ok
    /\ sink_result.ret = "absent"
    /\ Len(action_logs) = 1
    /\ request_log # <<>>

\* C19: a sink operation whose persistence step fails returns no key or
\* false and leaves the three tables as they were.
C19_FailureSwallowed ==
    [][(sink_calls' = sink_calls + 1 /\ ~sink_result'.ok)
         => /\ request_log' = request_log
            /\ job_logs' = job_logs
            /\ action_logs' = action_logs
            /\ sink_result'.ret \in {"absent", "false"}]_vars

\* update_action_log failed on a row that exists.
C19_Witness ==
    /\ sink_result.op = "finalize_action"
    /\ ~sink_result.ok
    /\ sink_result.ret = "false"
    /\ Len(action_logs) = 1
    /\ ~action_logs[1].end_time

\* C20: when the handler raised an exception E, what leaves dispatch is E,
\* and the row dispatch finalized holds status 500, the message of E and a
\* traceback.
C20_HandlerErrorLeaves ==
    \A f \in Flows :
       (flow[f].pc = "done" /\ flow[f].exc # None /\ flow[f].exc \notin BaseExceptions)
       => /\ flow[f].outcome = flow[f].exc
          /\ (flow[f].row # 0 /\ request_log[flow[f].row].finalized > 0)
             => /\ request_log[flow[f].row].status_code = 500
                /\ request_log[flow[f].row].error_message = flow[f].exc
                /\ request_log[flow[f].row].error_traceback # None

\* C21: whatever the persistence steps of dispatch do, the handler of a
\* request whose body could be read has been called when dispatch ends, and
\* what leaves dispatch is the handler's response or the exception the
\* handler raised.
C21_ClientUnaffected ==
    \A f \in Flows :
       (flow[f].pc = "done" /\ flow[f].outcome # "ClientDisconnect")
       => /\ flow[f].called
          /\ flow[f].outcome = IF flow[f].exc = None THEN "response" ELSE flow[f].exc

\* The text sanitize_data works on: the JSON text of a dict or list, str()
\* of anything else.
TextualEncoding(data) == IF IsStructured(data) THEN json_dumps(data) ELSE py_str(data)
IsPrefix(a, b) == Len(a) <= Len(b) /\ SubSeq(b, 1, Len(a)) = a
Sanitized == probe.op = "sanitize_data" /\ probe.done

\* C27: for a dict or list whose JSON text is no longer than max_length,
\* reading back what sanitize_data returned gives the value that went in.
C27_RoundTrip ==
    (Sanitized /\ IsStructured(probe.data)
       /\ Len(json_dumps(probe.data)) <= probe.max_length)
    => json_loads(probe.out) = probe.data

\* A dict holding a string with a quote, its text exactly max_length long.
C27_Witness ==
    /\ Sanitized
    /\ probe.data = JDict(<<<<<<"k">>, JStr(<<"\"">>)>>>>)
    /\ Len(probe.out) = probe.max_length
    /\ json_loads(probe.out) = probe.data

\* C28: for a value whose text is longer than max_length, sanitize_data
\* returns the first max_length characters of the text followed by something
\* that marks the cut (what it returns is then not a prefix of the text), and
\* returns the error marker instead of raising when printing raises.
C28_TruncatedWithMarker ==
    (Sanitized /\ probe.data.t \notin {"null", "unprintable"}
       /\ Len(TextualEncoding(probe.data)) > probe.max_length)
    => /\ IsPrefix(Slice(probe.out, probe.max_length), TextualEncoding(probe.data))
       /\ ~IsPrefix(probe.out, TextualEncoding(probe.data))

\* C22: in the headers stored with a request row, every header whose name
\* is authorization, cookie or set-cookie in any spelling has the redaction
\* marker as its value.
C22_SensitiveRedacted ==
    (probe.op = "headers" /\ probe.done /\ probe.out # NoText)
    => LET stored == json_loads(probe.out)
       IN /\ stored.t = "dict"
          /\ \A i \in DOMAIN stored.pairs :
                Lower(stored.pairs[i][1]) \in SENSITIVE_HEADERS
                => stored.pairs[i][2] = JStr(Redacted)

\* C23: a coroutine function cancelled while it runs, its action row
\* created and the sink working, has that row finalized as for any other
\* exception.
C23_CancelledFinalized ==
    (/\ call.pc = "done"
     /\ call.is_coro
     /\ call.behaviour.exc = "CancelledError"
     /\ call.action_log_id # 0
     /\ call.sink = "ok") =>
       /\ DecRow.end_time
       /\ DecRow.updates = 1

\* C25: when the wrapped function has returned or raised an Exception, the
\* sink working, the action row of the call has been updated exactly once:
\* with the result after a return, with the error after a raise, whatever
\* log_result is.
C25_MutatedOnceAtExit ==
    (/\ call.pc = "done"
     /\ call.invoked = 1
     /\ call.behaviour.exc \notin BaseExceptions
     /\ call.action_log_id # 0
     /\ call.sink = "ok") =>
       /\ DecRow.updates = 1
       /\ DecRow.end_time
       /\ call.behaviour.kind = "return" => DecRow.is_error = 0
       /\ (call.behaviour.kind = "raise" /\ Truthy(call.behaviour.msg)) => DecRow.is_error = 1

\* C24: while the handler of a request runs, dispatch holds no open
\* database session.
C24_NoSessionAcrossHandler ==
    \A f \in Flows : flow[f].pc = "handler" => ~flow[f].db_open

\* C26: while process_job executes the work of a job, after its update to
\* running and before its terminal update, the stored status of the job is
\* running.
C26_RunningWhileWorking ==
    \A j \in Jobs :
       (job[j].pc \in {"working", "finishing"} /\ JobStored(j))
       => JobRow(j).status = "running"

\* C29: an update_request_log call whose persistence works returns false
\* and writes nothing when no row has the request id; otherwise it returns
\* true and the error flag of the row is 1 when the status code is at least
\* 400 or a (non-empty) error message is passed, 0 when neither holds and a
\* status code is passed, and as it was when neither is passed.
C29_ErrorFlag ==
    [][(sink_calls' = sink_calls + 1 /\ sink_result'.op = "finalize_request"
          /\ sink_result'.ok)
        => LET i == RowIndex(request_log, "request_id", sink_result'.request_id)
               code == sink_result'.status_code
               error == code >= 400 \/ Truthy(sink_result'.error_message)
           IN IF i = 0
              THEN sink_result'.ret = "false" /\ request_log' = request_log
              ELSE /\ sink_result'.ret = "true"
                   /\ Len(request_log') = Len(request_log)
                   /\ request_log'[i].is_error =
                        IF error THEN 1
                        ELSE IF NoStatus(code) THEN request_log[i].is_error ELSE 0]_vars

\* A row finalized with status 200 and an error message has the flag set.
C29_Witness ==
    /\ sink_result.op = "finalize_request"
    /\ sink_result.ok
    /\ sink_result.ret = "true"
    /\ sink_result.status_code = 200
    /\ sink_result.error_message = "boom"
    /\ request_log[1].is_error = 1

\* C30: the id found is that of the `request` keyword argument when it is
\* a request carrying an id; else that of the first positional argument that
\* is a request carrying an id; else the request id of the context. A
\* request without an id is passed over.
C30_ResolutionOrder ==
    (probe.op = "_find_request_id" /\ probe.done) =>
      LET kw == probe.kw_request
          carriers == {i \in 1 .. Len(probe.args) :
                         probe.args[i].kind = "request" /\ probe.args[i].rid # None}
      IN IF kw.kind = "request" /\ kw.rid # None THEN probe.out = kw.rid
         ELSE IF carriers # {}
         THEN \E i \in carriers : /\ \A k \in carriers : i <= k
                                  /\ probe.out = probe.args[i].rid
         ELSE probe.out = CtxGet(current_request_id, 1)

\* The keyword request carries no id, the first positional request neither,
\* the second one does, and the context holds another id.
C30_Witness ==
    /\ probe.op = "_find_request_id" /\ probe.done
    /\ probe.kw_request = [kind |-> "request", rid |-> None]
    /\ Len(probe.args) = 2
    /\ probe.args[1] = [kind |-> "request", rid |-> None]
    /\ probe.args[2] = [kind |-> "request", rid |-> "r2"]
    /\ CtxGet(current_request_id, 1) = "ambient"
    /\ probe.out = "r2"

\* C33: requests handled at the same time never hold the same request id,
\* and each of them whose body could be read has its handler called.
C33_ConcurrentDistinct ==
    /\ \A f, g \in Flows :
         (f # g /\ flow[f].pc \in Dispatching /\ flow[g].pc \in Dispatching)
         => flow[f].request_uuid # flow[g].request_uuid
    /\ \A f \in Flows :
         (flow[f].pc = "done" /\ flow[f].outcome # "ClientDisconnect") => flow[f].called

\* C34: a request row that holds an error message has its error flag set,
\* whatever update_request_log calls were made on it.
C34_MessageImpliesFlag ==
    \A i \in 1 .. Len(request_log) :
       Truthy(request_log[i].error_message) => request_log[i].is_error = 1

\* C35: a get_job_status response with status failed carries an error.
C35_FailedHasError ==
    \A f \in Flows :
       (flow[f].pc = "respond" /\ flow[f].q_status = "failed") => flow[f].q_error # None

\* C36: when dispatch has ended, on any path, the session it opened is
\* closed.
C36_SessionClosed ==
    \A f \in Flows : flow[f].pc = "done" => ~flow[f].db_open

\* C37: while process_job executes the work of a job, get_job_id() in its
\* task returns the id of that job.
C37_GetJobId ==
    \A j \in Jobs :
       job[j].pc \in {"working", "finishing"} => get_job_id(BgTask(j)) = job[j].job_id

\* C32: a step of a job (the start of process_job, its work) taken after
\* the request that submitted the job has left dispatch with its row
\* finalized creates action rows, and each of them is linked to that
\* request's row.
C32_DetachedJobLinked ==
    [][\A j \in Jobs :
         (/\ job[j].pc \in {"scheduled", "working"}
          /\ job'[j].pc # job[j].pc
          /\ flow[job[j].flow].pc = "done"
          /\ flow[job[j].flow].row \in 1 .. Len(request_log)
          /\ request_log[flow[job[j].flow].row].finalized > 0)
         => /\ Len(action_logs') > Len(action_logs)
            /\ \A i \in (Len(action_logs) + 1) .. Len(action_logs') :
                  action_logs'[i].request_id = flow[job[j].flow].row]_vars

\* The request has been finalized and has left while its job is still
\* queued: everything the job does comes after.
C32_Witness ==
    \E j \in Jobs :
      /\ job[j].pc = "scheduled"
      /\ JobStored(j) /\ JobRow(j).status = "queued"
      /\ flow[job[j].flow].pc = "done"
      /\ flow[job[j].flow].outcome = "response"
      /\ request_log[flow[job[j].flow].row].finalized = 1
      /\ JobRow(j).request_log_id = flow[job[j].flow].row

\* The text whose UTF-8 encoding is the given bytes.
TextOf(bytes) == [i \in 1 .. Len(bytes) |-> ByteChar(bytes[i])]

C38_SingleInitializedInstance ==
    probe.op = "aws" =>
        /\ \A t \in AwsTasks :
              probe.ret[t].kind = "get_instance" =>
                  probe.ret[t].id # 0 /\ probe.ret[t].ready
        /\ probe.made_since_shutdown <= 1

Retryable(e) ==
    \/ e.exc = "ClientError" /\ e.code \in ThrottlingCodes
    \/ e.exc \in NetworkErrors

\* C39: _with_retries ends; it calls the wrapped function at most
\* RETRY_ATTEMPTS times; it goes on to another attempt only after a
\* throttling client error or a transient network error; any other error of
\* the wrapped function, cancellation included, is re-raised at once.
C39_BoundedRetries ==
    /\ <>(probe.pc = "done")
    /\ [](probe.calls <= RETRY_ATTEMPTS)
    /\ [][(probe.pc = "call" /\ probe'.pc = "sleep")
             => Retryable(probe'.seen[Len(probe'.seen)])]_vars
    /\ [][\A e \in {probe'.seen[Len(probe'.seen)]} :
             (probe.pc = "call" /\ e # Returned /\ ~Retryable(e))
                => probe'.pc = "done" /\ probe'.out = e]_vars
C39_Witness ==
    /\ probe.op = "_with_retries"
    /\ probe.pc = "done"
    /\ probe.calls = RETRY_ATTEMPTS
    /\ Retryable(probe.out)
    /\ probe.seen[1].exc = "ClientError"

====
